---------------------------- MODULE Spec2Model ----------------------------
(***************************************************************************)
(* Card-arbitrage opportunity detection: the detector Lambda               *)
(* (infrastructure/lambda_functions/arbitrage_detector/handler.py) and the *)
(* fee and risk model it imports from layers/shared/python/shared_utils.py.*)
(*                                                                         *)
(* Units.  Money is a Decimal with two places in the code and an integer   *)
(* number of cents here.  A risk score is a multiple of 0.1 in the code    *)
(* and an integer number of tenths here.  A confidence level is            *)
(* 100 - (risk - 1.0) * 20, a whole number for every multiple of 0.1, and  *)
(* an integer here.  A quotient of Decimals (profit margin, composite      *)
(* score) is kept as the exact fraction [n, d]; fractions are compared by  *)
(* RatLess, which neither rounds nor overflows.                            *)
(*                                                                         *)
(* Text.  Platform names and condition labels are sequences of one-        *)
(* character strings, so that str.lower() and str.strip() are computed     *)
(* character by character.  Item identifiers are opaque strings.           *)
(***************************************************************************)
EXTENDS Integers, Sequences, FiniteSets, TLC

VARIABLES
    env,                \* os.environ: the detector's configuration
    event,              \* the Lambda event
    listings_table,     \* Listing Store: the card's items in card-name-index order
    opportunities_table,\* Opportunity Store: the items written, in write order
    pc,                 \* position of lambda_handler
    listings,           \* detect_opportunities: result of _get_active_listings
    platform_listings,  \* detect_opportunities: result of _group_listings_by_platform
    pairs_evaluated,    \* per _analyze_platform_pair call: inner-loop iterations
    opportunities,      \* detect_opportunities: result of _find_cross_platform_opportunities
    valid_opportunities,\* detect_opportunities: result of _filter_and_rank_opportunities
    stored_count,       \* detect_opportunities: result of _store_opportunities
    result,             \* the response lambda_handler returns
    probe,              \* a pure function of shared_utils applied to chosen arguments
    opportunities_found,\* lambda_handler: its local of that name
    items_to_store,     \* _store_opportunities: the items handed to batch_write_items
    market_insights,    \* lambda_handler: result of get_market_insights
    store_calls,        \* the calls made to the two stores, in order, with their outcome
    workflow,           \* card-arbitrage-workflow: the state of the execution
    invocations,        \* concurrent detector invocations, by card name
    store_faults,       \* the store calls that may still fail
    clock,              \* the wall clock datetime.now reads, in ticks
    sweep,              \* scheduler: position and locals of _cleanup_expired_opportunities
    detection           \* detect_opportunities against the keyed store: runs made, writes to come

vars == <<env, event, listings_table, opportunities_table, pc, listings,
          platform_listings, pairs_evaluated, opportunities, valid_opportunities,
          stored_count, result, probe, opportunities_found, items_to_store,
          market_insights, store_calls, workflow, invocations, store_faults,
          clock, sweep, detection>>

\* _analyze_platform_pair: min(50, len(...)), on both sides
MaxPairItems == 50

\* lambda_handler: opportunities[:5]
TopOpportunities == 5

Min(a, b) == IF a <= b THEN a ELSE b
Max(a, b) == IF a >= b THEN a ELSE b

-----------------------------------------------------------------------------
(* str.lower() and str.strip() *)

UpperToLower ==
    ("A" :> "a") @@ ("B" :> "b") @@ ("C" :> "c") @@ ("D" :> "d") @@ ("E" :> "e") @@ ("F" :> "f") @@
    ("G" :> "g") @@ ("H" :> "h") @@ ("I" :> "i") @@ ("J" :> "j") @@ ("K" :> "k") @@ ("L" :> "l") @@
    ("M" :> "m") @@ ("N" :> "n") @@ ("O" :> "o") @@ ("P" :> "p") @@ ("Q" :> "q") @@ ("R" :> "r") @@
    ("S" :> "s") @@ ("T" :> "t") @@ ("U" :> "u") @@ ("V" :> "v") @@ ("W" :> "w") @@ ("X" :> "x") @@
    ("Y" :> "y") @@ ("Z" :> "z")

LowerChar(c) == IF c \in DOMAIN UpperToLower THEN UpperToLower[c] ELSE c

Lower(s) == [i \in 1..Len(s) |-> LowerChar(s[i])]

Whitespace == {" ", "\t", "\n", "\r", "\f"}

RECURSIVE LStrip(_)
LStrip(s) == IF s # <<>> /\ Head(s) \in Whitespace THEN LStrip(Tail(s)) ELSE s

RECURSIVE RStrip(_)
RStrip(s) ==
    IF s # <<>> /\ s[Len(s)] \in Whitespace THEN RStrip(SubSeq(s, 1, Len(s) - 1)) ELSE s

Strip(s) == RStrip(LStrip(s))

-----------------------------------------------------------------------------
(* Exact fractions n/d with n >= 0 and d > 0.                              *)

\* a/b < c/d, by the continued-fraction expansion of both sides.
RECURSIVE FracLess(_, _, _, _)
FracLess(a, b, c, d) ==
    LET q1 == a \div b
        q2 == c \div d
        r1 == a % b
        r2 == c % d
    IN  IF q1 # q2 THEN q1 < q2
        ELSE IF r2 = 0 THEN FALSE
        ELSE IF r1 = 0 THEN TRUE
        ELSE FracLess(d, r2, b, r1)

RatLess(x, y) == FracLess(x.n, x.d, y.n, y.d)
RatEq(x, y) == ~RatLess(x, y) /\ ~RatLess(y, x)
RatLeq(x, y) == ~RatLess(y, x)

-----------------------------------------------------------------------------
(* shared_utils: fee and risk model *)

fee_rates ==
    (<<"e", "b", "a", "y">> :> 125) @@
    (<<"t", "c", "g", "p", "l", "a", "y", "e", "r">> :> 110) @@
    (<<"c", "o", "m", "c">> :> 200) @@
    (<<"m", "e", "r", "c", "a", "r", "i">> :> 100) @@
    (<<"f", "a", "c", "e", "b", "o", "o", "k">> :> 50) @@
    (<<"c", "a", "r", "d", "m", "a", "r", "k", "e", "t">> :> 80) @@
    (<<"d", "e", "f", "a", "u", "l", "t">> :> 100)

\* Mutant of calculate_platform_fees: the default rate for every platform.
calculate_platform_fees_default_rate(platform, amount) ==
    (amount * fee_rates[<<"d", "e", "f", "a", "u", "l", "t">>] + 500) \div 1000

\* (amount * fee_rate).quantize(Decimal('0.01'), ROUND_HALF_UP); amount >= 0 in cents,
\* the rate in thousandths.
calculate_platform_fees(platform, amount) ==
    LET key == Lower(platform)
        fee_rate == IF key \in DOMAIN fee_rates THEN fee_rates[key] ELSE fee_rates[<<"d", "e", "f", "a", "u", "l", "t">>]
    IN  (amount * fee_rate + 500) \div 1000

condition_hierarchy ==
    (<<"g", "e", "m", " ", "m", "i", "n", "t">> :> 10) @@
    (<<"p", "r", "i", "s", "t", "i", "n", "e">> :> 10) @@
    (<<"b", "l", "a", "c", "k", " ", "l", "a", "b", "e", "l">> :> 10) @@
    (<<"m", "i", "n", "t">> :> 9) @@
    (<<"p", "e", "r", "f", "e", "c", "t">> :> 9) @@
    (<<"p", "s", "a", " ", "1", "0">> :> 10) @@
    (<<"b", "g", "s", " ", "1", "0">> :> 10) @@
    (<<"n", "e", "a", "r", " ", "m", "i", "n", "t">> :> 8) @@
    (<<"n", "m">> :> 8) @@
    (<<"n", "m", "/", "m", "i", "n", "t">> :> 8) @@
    (<<"p", "s", "a", " ", "9">> :> 9) @@
    (<<"b", "g", "s", " ", "9">> :> 9) @@
    (<<"e", "x", "c", "e", "l", "l", "e", "n", "t">> :> 7) @@
    (<<"e", "x">> :> 7) @@
    (<<"p", "s", "a", " ", "8">> :> 8) @@
    (<<"b", "g", "s", " ", "8">> :> 8) @@
    (<<"v", "e", "r", "y", " ", "g", "o", "o", "d">> :> 6) @@
    (<<"v", "g">> :> 6) @@
    (<<"p", "s", "a", " ", "7">> :> 7) @@
    (<<"b", "g", "s", " ", "7">> :> 7) @@
    (<<"g", "o", "o", "d">> :> 5) @@
    (<<"g", "d">> :> 5) @@
    (<<"p", "s", "a", " ", "6">> :> 6) @@
    (<<"b", "g", "s", " ", "6">> :> 6) @@
    (<<"l", "i", "g", "h", "t", "l", "y", " ", "p", "l", "a", "y", "e", "d">> :> 4) @@
    (<<"l", "p">> :> 4) @@
    (<<"l", "i", "g", "h", "t", " ", "p", "l", "a", "y">> :> 4) @@
    (<<"p", "s", "a", " ", "5">> :> 5) @@
    (<<"m", "o", "d", "e", "r", "a", "t", "e", "l", "y", " ", "p", "l", "a", "y", "e", "d">> :> 3) @@
    (<<"m", "p">> :> 3) @@
    (<<"p", "l", "a", "y", "e", "d">> :> 3) @@
    (<<"p", "s", "a", " ", "4">> :> 4) @@
    (<<"h", "e", "a", "v", "i", "l", "y", " ", "p", "l", "a", "y", "e", "d">> :> 2) @@
    (<<"h", "p">> :> 2) @@
    (<<"p", "s", "a", " ", "3">> :> 3) @@
    (<<"d", "a", "m", "a", "g", "e", "d">> :> 1) @@
    (<<"d", "m", "g">> :> 1) @@
    (<<"p", "o", "o", "r">> :> 1) @@
    (<<"p", "s", "a", " ", "2">> :> 2) @@
    (<<"p", "s", "a", " ", "1">> :> 1) @@
    (<<"u", "n", "k", "n", "o", "w", "n">> :> 4) @@
    (<<"u", "n", "g", "r", "a", "d", "e", "d">> :> 4) @@
    (<<>> :> 4)

\* Mutant of condition_score: the label is lower-cased and not stripped.
condition_score_unstripped(condition) ==
    LET key == Lower(condition)
    IN  IF key \in DOMAIN condition_hierarchy THEN condition_hierarchy[key] ELSE 4

\* condition_hierarchy.get(condition.lower().strip(), 4)
condition_score(condition) ==
    LET key == Strip(Lower(condition))
    IN  IF key \in DOMAIN condition_hierarchy THEN condition_hierarchy[key] ELSE 4

\* Mutant of assess_condition_compatibility: a one-grade tolerance in both directions.
assess_condition_within_one_grade(buy_condition, sell_condition) ==
    /\ condition_score(buy_condition) >= condition_score(sell_condition) - 1
    /\ condition_score(sell_condition) >= condition_score(buy_condition) - 1

assess_condition_compatibility(buy_condition, sell_condition) ==
    condition_score(buy_condition) >= condition_score(sell_condition) - 1

high_risk_platforms == {<<"m", "e", "r", "c", "a", "r", "i">>, <<"f", "a", "c", "e", "b", "o", "o", "k">>, <<"c", "r", "a", "i", "g", "s", "l", "i", "s", "t">>, <<"o", "f", "f", "e", "r", "u", "p">>}
medium_risk_platforms == {<<"c", "o", "m", "c">>, <<"c", "a", "r", "d", "m", "a", "r", "k", "e", "t">>}

\* The scraped_at attribute of a listing, by what the detector can tell of it:
\*   "fresh"  an offset-aware ISO timestamp less than one hour old
\*   "aged"   an offset-aware ISO timestamp at least one hour old, inside the query window
\*   "naive"  an ISO timestamp without offset, of any age (subtracting it from an
\*            aware datetime raises TypeError)
\*   "garbled" a missing value or a string datetime.fromisoformat rejects
\*   "stale"  a timestamp older than the query's cutoff
ScrapedKinds == {"fresh", "aged", "naive", "garbled", "stale"}

\* Mutant of reputation_risk: a good rating lowers the risk.
reputation_risk_rewarding(buy_rating) ==
    IF buy_rating < 95 THEN 3 ELSE 0 - 3

\* Mutant of reputation_risk: only the penalty of the lowest band reached applies.
reputation_risk_not_cumulative(buy_rating) ==
    IF buy_rating < 85 THEN 7 ELSE IF buy_rating < 90 THEN 5 ELSE IF buy_rating < 95 THEN 3 ELSE 0

\* calculate_risk_score: seller reputation risk, in tenths.
reputation_risk(buy_rating) ==
    (IF buy_rating < 95 THEN 3 ELSE 0)
    + (IF buy_rating < 90 THEN 5 ELSE 0)
    + (IF buy_rating < 85 THEN 7 ELSE 0)

\* Risk in tenths.
calculate_risk_score(buy_listing, sell_listing) ==
    LET reputation == reputation_risk(buy_listing.seller_rating)
        buy_platform == Lower(buy_listing.platform)
        sell_platform == Lower(sell_listing.platform)
        platform_risk ==
            IF buy_platform \in high_risk_platforms \/ sell_platform \in high_risk_platforms
            THEN 4
            ELSE IF buy_platform \in medium_risk_platforms
                    \/ sell_platform \in medium_risk_platforms
            THEN 2
            ELSE 0
        buy_total == buy_listing.total_cost
        sell_price == sell_listing.price
        \* profit_margin = (sell_price - buy_total) / buy_total, compared with 1 and 0.5
        margin_risk ==
            IF buy_total > 0
            THEN IF sell_price - buy_total > buy_total THEN 8
                 ELSE IF 2 * (sell_price - buy_total) > buy_total THEN 4
                 ELSE 0
            ELSE 0
        age_risk ==
            CASE buy_listing.scraped_at = "fresh" -> 2
              [] buy_listing.scraped_at \in {"naive", "garbled"} -> 1
              [] OTHER -> 0
        condition_risk ==
            IF ~assess_condition_compatibility(buy_listing.condition, sell_listing.condition)
            THEN 10 ELSE 0
    IN  Min(10 + reputation + platform_risk + margin_risk + age_risk + condition_risk, 50)

\* Mutant of calculate_confidence_level: 1.0 -> 90, 3.0 -> 50, 5.0 -> 10.
calculate_confidence_level_from_90(risk_score) ==
    LET base_confidence == 90 - (risk_score - 10) * 2
    IN  Max(Min(base_confidence, 100), 10)

\* risk_score in tenths: (risk_score - 1.0) * 20 = (tenths - 10) * 2.
calculate_confidence_level(risk_score) ==
    LET base_confidence == 100 - (risk_score - 10) * 2
    IN  Max(Min(base_confidence, 100), 10)

-----------------------------------------------------------------------------
(* ArbitrageDetector *)

\* ArbitrageDetector.__init__: the configuration read from the environment.
\* min_profit_margin in hundredths, max_risk_score in tenths, amounts in cents,
\* max_price_ratio in tenths.
ArbitrageDetector(environ) ==
    [min_profit_margin |-> environ.MIN_PROFIT_MARGIN,
     max_risk_score |-> environ.MAX_RISK_SCORE,
     max_opportunities_per_card |-> environ.MAX_OPPORTUNITIES_PER_CARD,
     min_profit_amount |-> 500,
     max_price_ratio |-> 8]

\* list.sort(key=...): a stable sort.  before[i, j] holds when the key of s[i]
\* strictly precedes that of s[j]; elements with equal keys keep their order.
StableSort(s, before) ==
    LET n == Len(s)
        pos == [i \in 1..n |->
                   Cardinality({j \in 1..n : \/ before[j, i]
                                             \/ (j < i /\ ~before[i, j])}) + 1]
        at == [k \in 1..n |-> CHOOSE i \in 1..n : pos[i] = k]
    IN  [k \in 1..n |-> s[at[k]]]

\* The keys of a dict, in insertion order: the keys the first half of s inserts, then
\* those the second half adds to them.
RECURSIVE Keys(_, _)
Keys(s, seen) ==
    IF s = <<>> THEN <<>>
    ELSE IF Len(s) = 1 THEN (IF s[1] \in seen THEN <<>> ELSE s)
    ELSE LET m == Len(s) \div 2
         IN  Keys(SubSeq(s, 1, m), seen)
                 \o Keys(SubSeq(s, m + 1, Len(s)), seen \cup {s[i] : i \in 1..m})

\* The key order of sort(key=total_cost) on the listings s.
by_total_cost(s) ==
    [i \in 1..Len(s), j \in 1..Len(s) |-> s[i].total_cost < s[j].total_cost]

\* _group_listings_by_platform: [keys: the platforms in insertion order,
\* of: platform -> its listings sorted by total cost].
group_listings_by_platform(ls) ==
    LET keys == Keys([i \in 1..Len(ls) |-> ls[i].platform], {})
    IN  [keys |-> keys,
         of |-> [p \in {keys[i] : i \in 1..Len(keys)} |->
                    LET group == SelectSeq(ls, LAMBDA l : l.platform = p)
                    IN  StableSort(group, by_total_cost(group))]]

\* Mutant of max_buy_items: every buy listing is analysed.
max_buy_items_uncapped(buy_listings) == Len(buy_listings)

max_buy_items(buy_listings) == Min(MaxPairItems, Len(buy_listings))
max_sell_items(sell_listings) == Min(MaxPairItems, Len(sell_listings))

\* Mutant of detail_sell_platform: the platform is read from the buy listing.
detail_sell_platform_from_buy(buy_listing, sell_listing) == buy_listing.platform

\* _calculate_detailed_opportunity: sell_platform = sell_listing.get('platform', '')
detail_sell_platform(buy_listing, sell_listing) == sell_listing.platform

\* _calculate_detailed_opportunity: the filter by minimum thresholds; the margin is
\* profit_amount / buy_total (0 when buy_total <= 0), min_profit_margin in hundredths.
below_min_thresholds(self, profit_amount, buy_total) ==
    \/ IF buy_total > 0
       THEN profit_amount * 100 < self.min_profit_margin * buy_total
       ELSE 0 < self.min_profit_margin
    \/ profit_amount < self.min_profit_amount

\* Mutant of above_max_risk: the score is compared with the cap of 5.0, not with the
\* configured maximum.
above_max_risk_cap(self, risk_score) == risk_score > 50

\* _calculate_detailed_opportunity: the filter by maximum risk.
above_max_risk(self, risk_score) == risk_score > self.max_risk_score

\* Mutant of calculate_detailed_opportunity: buy_total is read from the listing's
\* price, leaving the shipping cost out.
calculate_detailed_opportunity_on_price(self, buy_listing, sell_listing, card_name) ==
    LET buy_price == buy_listing.price
        buy_shipping == buy_listing.shipping_cost
        buy_total == buy_listing.price
        sell_price == sell_listing.price
        buy_platform == buy_listing.platform
        sell_platform == detail_sell_platform(buy_listing, sell_listing)
        platform_fees == calculate_platform_fees(sell_platform, sell_price)
        net_sell_amount == sell_price - platform_fees
        profit_amount == net_sell_amount - buy_total
        risk_score == calculate_risk_score(buy_listing, sell_listing)
        confidence_level == calculate_confidence_level(risk_score)
    IN  IF below_min_thresholds(self, profit_amount, buy_total) THEN <<>>
        ELSE IF above_max_risk(self, risk_score) THEN <<>>
        ELSE <<[card_name |-> card_name,
                buy_platform |-> buy_platform,
                sell_platform |-> sell_platform,
                platform_pair |-> buy_platform \o <<"-", "t", "o", "-">> \o sell_platform,
                buy_price |-> buy_price,
                sell_price |-> sell_price,
                buy_shipping |-> buy_shipping,
                buy_total |-> buy_total,
                platform_fees |-> platform_fees,
                net_sell_amount |-> net_sell_amount,
                profit_amount |-> profit_amount,
                profit_margin |-> IF buy_total > 0 THEN [n |-> profit_amount, d |-> buy_total]
                                  ELSE [n |-> 0, d |-> 1],
                risk_score |-> risk_score,
                confidence_level |-> confidence_level,
                buy_item_id |-> buy_listing.item_id,
                sell_item_id |-> sell_listing.item_id,
                buy_condition |-> buy_listing.condition,
                sell_condition |-> sell_listing.condition,
                buy_seller_rating |-> buy_listing.seller_rating,
                sell_seller_rating |-> sell_listing.seller_rating,
                status |-> "ACTIVE"]>>

\* _calculate_detailed_opportunity: <<>> for None, <<opportunity>> otherwise.
calculate_detailed_opportunity(self, buy_listing, sell_listing, card_name) ==
    LET buy_price == buy_listing.price
        buy_shipping == buy_listing.shipping_cost
        buy_total == buy_listing.total_cost
        sell_price == sell_listing.price
        buy_platform == buy_listing.platform
        sell_platform == detail_sell_platform(buy_listing, sell_listing)
        platform_fees == calculate_platform_fees(sell_platform, sell_price)
        net_sell_amount == sell_price - platform_fees
        profit_amount == net_sell_amount - buy_total
        risk_score == calculate_risk_score(buy_listing, sell_listing)
        confidence_level == calculate_confidence_level(risk_score)
    IN  IF below_min_thresholds(self, profit_amount, buy_total) THEN <<>>
        ELSE IF above_max_risk(self, risk_score) THEN <<>>
        ELSE <<[card_name |-> card_name,
                buy_platform |-> buy_platform,
                sell_platform |-> sell_platform,
                platform_pair |-> buy_platform \o <<"-", "t", "o", "-">> \o sell_platform,
                buy_price |-> buy_price,
                sell_price |-> sell_price,
                buy_shipping |-> buy_shipping,
                buy_total |-> buy_total,
                platform_fees |-> platform_fees,
                net_sell_amount |-> net_sell_amount,
                profit_amount |-> profit_amount,
                profit_margin |-> IF buy_total > 0 THEN [n |-> profit_amount, d |-> buy_total]
                                  ELSE [n |-> 0, d |-> 1],
                risk_score |-> risk_score,
                confidence_level |-> confidence_level,
                buy_item_id |-> buy_listing.item_id,
                sell_item_id |-> sell_listing.item_id,
                buy_condition |-> buy_listing.condition,
                sell_condition |-> sell_listing.condition,
                buy_seller_rating |-> buy_listing.seller_rating,
                sell_seller_rating |-> sell_listing.seller_rating,
                status |-> "ACTIVE"]>>

\* The body of the inner loop of _analyze_platform_pair for one (buy, sell) pair:
\* <<>> when the pair is skipped, <<opportunity>> when it is appended.
analyze_pair(self, buy_listing, sell_listing, sell_platform, card_name) ==
    LET buy_total == buy_listing.total_cost
        sell_price == sell_listing.price
        estimated_profit ==
            sell_price - buy_total - calculate_platform_fees(sell_platform, sell_price)
    IN  IF buy_listing.item_id = sell_listing.item_id
           /\ buy_listing.platform = sell_listing.platform THEN <<>>
        ELSE IF buy_total <= 0 \/ sell_price <= 0 THEN <<>>
        ELSE IF estimated_profit < self.min_profit_amount THEN <<>>
        ELSE IF buy_total * 10 > sell_price * self.max_price_ratio THEN <<>>
        ELSE IF ~assess_condition_compatibility(buy_listing.condition,
                                                sell_listing.condition) THEN <<>>
        ELSE calculate_detailed_opportunity(self, buy_listing, sell_listing, card_name)

\* The concatenation of a sequence of sequences.
RECURSIVE Flatten(_)
Flatten(ss) ==
    IF ss = <<>> THEN <<>>
    ELSE IF Len(ss) = 1 THEN ss[1]
    ELSE LET m == Len(ss) \div 2
         IN  Flatten(SubSeq(ss, 1, m)) \o Flatten(SubSeq(ss, m + 1, Len(ss)))

\* _analyze_platform_pair: the opportunities of one direction, in loop order
\* (buy listing outer, sell listing inner).
analyze_platform_pair(self, buy_listings, sell_listings, buy_platform, sell_platform, card_name) ==
    LET nb == max_buy_items(buy_listings)
        ns == max_sell_items(sell_listings)
    IN  Flatten([k \in 1..(nb * ns) |->
                    analyze_pair(self, buy_listings[((k - 1) \div ns) + 1],
                                 sell_listings[((k - 1) % ns) + 1],
                                 sell_platform, card_name)])

\* The number of (buy, sell) pairs the loops of _analyze_platform_pair visit.
pairs_visited(buy_listings, sell_listings) ==
    max_buy_items(buy_listings) * max_sell_items(sell_listings)

\* Mutant of platform_directions: each combination is analysed in one direction.
platform_directions_one_way(platforms) ==
    LET n == Len(platforms)
    IN  SelectSeq([k \in 1..(n * n) |->
                      <<platforms[((k - 1) \div n) + 1], platforms[((k - 1) % n) + 1]>>],
                  LAMBDA c : \E i, j \in 1..n : i < j /\ c = <<platforms[i], platforms[j]>>)

\* itertools.combinations(platforms, 2) with both directions of each combination, in
\* the order _find_cross_platform_opportunities analyses them.
platform_directions(platforms) ==
    LET n == Len(platforms)
        combos == SelectSeq([k \in 1..(n * n) |-> <<((k - 1) \div n) + 1, ((k - 1) % n) + 1>>],
                            LAMBDA c : c[1] < c[2])
    IN  [k \in 1..(2 * Len(combos)) |->
            LET c == combos[(k + 1) \div 2]
            IN  IF k % 2 = 1 THEN <<platforms[c[1]], platforms[c[2]]>>
                ELSE <<platforms[c[2]], platforms[c[1]]>>]

\* _find_cross_platform_opportunities
find_cross_platform_opportunities(self, groups, card_name) ==
    LET dirs == platform_directions(groups.keys)
    IN  Flatten([k \in 1..Len(dirs) |->
                    analyze_platform_pair(self, groups.of[dirs[k][1]], groups.of[dirs[k][2]],
                                          dirs[k][1], dirs[k][2], card_name)])

\* The inner-loop iterations of each _analyze_platform_pair call, in call order.
pairs_visited_by_direction(groups) ==
    LET dirs == platform_directions(groups.keys)
    IN  [k \in 1..Len(dirs) |->
            [buy_platform |-> dirs[k][1], sell_platform |-> dirs[k][2],
             pairs |-> pairs_visited(groups.of[dirs[k][1]], groups.of[dirs[k][2]])]]

\* f"{opp['buy_item_id']}#{opp['sell_item_id']}"
dedup_key(opp) == opp.buy_item_id \o "#" \o opp.sell_item_id

\* Mutant of replaces_existing: on equal confidence the later opportunity wins.
replaces_existing_on_tie(new_confidence, existing_confidence) ==
    new_confidence >= existing_confidence

\* Mutant of replaces_existing: the opportunity seen last always wins.
replaces_existing_always(new_confidence, existing_confidence) == TRUE

\* _filter_and_rank_opportunities: new_confidence > existing_confidence
replaces_existing(new_confidence, existing_confidence) == new_confidence > existing_confidence

\* The loop over opportunities that fills unique_opportunities: the dict is a sequence
\* of [key, value] in insertion order; a key keeps its place when its value is replaced.
\* The loop over opps is the loop over its first half, then over its second half on
\* the dict the first half left.
RECURSIVE unique_opportunities(_, _)
unique_opportunities(opps, dict) ==
    IF opps = <<>> THEN dict
    ELSE IF Len(opps) = 1
    THEN LET opp == opps[1]
             key == dedup_key(opp)
             hit == {i \in 1..Len(dict) : dict[i].key = key}
         IN  IF hit = {}
             THEN Append(dict, [key |-> key, value |-> opp])
             ELSE LET i == CHOOSE i \in hit : TRUE
                  IN  IF replaces_existing(opp.confidence_level, dict[i].value.confidence_level)
                      THEN [dict EXCEPT ![i].value = opp]
                      ELSE dict
    ELSE LET m == Len(opps) \div 2
         IN  CHOOSE unique \in
                 {unique_opportunities(SubSeq(opps, m + 1, Len(opps)), first) :
                      first \in {unique_opportunities(SubSeq(opps, 1, m), dict)}} : TRUE

\* (profit_margin * confidence) / max(risk_score, 0.1), the risk in tenths
composite_score(opp) ==
    [n |-> opp.profit_margin.n * opp.confidence_level * 10,
     d |-> opp.profit_margin.d * Max(opp.risk_score, 1)]

with_composite_score(opp) ==
    [f \in DOMAIN opp \cup {"composite_score"} |->
        IF f = "composite_score" THEN composite_score(opp) ELSE opp[f]]

\* The key order of sort(key=composite_score, reverse=True) on the opportunities s.
by_composite_score_desc(s) ==
    [i \in 1..Len(s), j \in 1..Len(s) |->
        RatLess(s[j].composite_score, s[i].composite_score)]

Reverse(s) == [i \in 1..Len(s) |-> s[Len(s) + 1 - i]]

by_composite_score_asc(s) ==
    [i \in 1..Len(s), j \in 1..Len(s) |->
        RatLess(s[i].composite_score, s[j].composite_score)]

\* Mutant of sort_by_composite_score: an ascending sort, reversed (equal scores end
\* in reverse order).
sort_ascending_then_reverse(filtered_opportunities) ==
    Reverse(StableSort(filtered_opportunities,
                       by_composite_score_asc(filtered_opportunities)))

\* filtered_opportunities.sort(key=composite_score, reverse=True)
sort_by_composite_score(filtered_opportunities) ==
    StableSort(filtered_opportunities, by_composite_score_desc(filtered_opportunities))

\* _filter_and_rank_opportunities
filter_and_rank_opportunities(opps) ==
    IF opps = <<>> THEN <<>>
    ELSE LET dict == unique_opportunities(opps, <<>>)
             filtered_opportunities == [i \in 1..Len(dict) |-> with_composite_score(dict[i].value)]
         IN  sort_by_composite_score(filtered_opportunities)

\* sequence[:n]
Prefix(s, n) == SubSeq(s, 1, Min(n, Len(s)))

-----------------------------------------------------------------------------
(* The inputs: environment, event and the content of the Listing Store *)

ebay == <<"e", "b", "a", "y">>
EBAY == <<"E", "B", "A", "Y">>
tcgplayer == <<"t", "c", "g", "p", "l", "a", "y", "e", "r">>
comc == <<"c", "o", "m", "c">>
mercari == <<"m", "e", "r", "c", "a", "r", "i">>

NearMint == <<"N", "e", "a", "r", " ", "M", "i", "n", "t">>
PaddedNM == <<" ", "N", "M", " ">>
Mint == <<"M", "i", "n", "t">>
HeavilyPlayed == <<"H", "e", "a", "v", "i", "l", "y", " ", "P", "l", "a", "y", "e", "d">>

\* An item of the listings table as the scraper writes it: total_cost = price + shipping_cost.
Listing(platform, item_id, price, shipping_cost, condition, seller_rating, scraped_at, is_active) ==
    [platform |-> platform, item_id |-> item_id, price |-> price,
     shipping_cost |-> shipping_cost, total_cost |-> price + shipping_cost,
     condition |-> condition, seller_rating |-> seller_rating,
     scraped_at |-> scraped_at, is_active |-> is_active]

ScenarioA_buy == Listing(ebay, "i1", 1000, 0, NearMint, 100, "aged", TRUE)
ScenarioA_buy_fresh == Listing(ebay, "i1", 1000, 0, NearMint, 100, "fresh", TRUE)
ScenarioA_sell == Listing(tcgplayer, "i2", 3000, 0, NearMint, 100, "aged", TRUE)
ScenarioC_mint_cheap == Listing(ebay, "i4", 1000, 0, Mint, 100, "aged", TRUE)
ScenarioC_played_dear == Listing(tcgplayer, "i5", 3000, 0, HeavilyPlayed, 100, "aged", TRUE)
ScenarioC_played_cheap == Listing(ebay, "i6", 1000, 0, HeavilyPlayed, 100, "aged", TRUE)
ScenarioC_mint_dear == Listing(tcgplayer, "i7", 3000, 0, Mint, 100, "aged", TRUE)

\* The listings the store may hold for the card.
Catalogue ==
    {ScenarioA_buy, ScenarioA_buy_fresh, ScenarioA_sell,
     ScenarioC_mint_cheap, ScenarioC_played_dear, ScenarioC_played_cheap, ScenarioC_mint_dear,
     Listing(EBAY, "i1", 1000, 0, PaddedNM, 100, "aged", TRUE),
     Listing(mercari, "i1", 900, 0, NearMint, 92, "fresh", TRUE),
     Listing(comc, "i1", 2000, 500, NearMint, 100, "naive", TRUE),
     Listing(ebay, "i9", 3500, 0, NearMint, 100, "aged", TRUE),
     Listing(tcgplayer, "i8", 4000, 0, NearMint, 100, "aged", FALSE)}

\* Most listings a pool holds.
MaxPool == 4

\* The table's key gives one item per (platform, item_id).  The card-name-index has
\* sort key price: a query returns the card's items by ascending price, items of equal
\* price in any order.
Pools ==
    UNION {{s \in [1..n -> Catalogue] :
               \A i, j \in 1..n :
                   i < j => /\ <<s[i].platform, s[i].item_id>> # <<s[j].platform, s[j].item_id>>
                            /\ s[i].price <= s[j].price}
           : n \in 0..MaxPool}

DefaultEnviron ==
    [MIN_PROFIT_MARGIN |-> 15, MAX_RISK_SCORE |-> 20, MAX_OPPORTUNITIES_PER_CARD |-> 10]

Environs ==
    {DefaultEnviron,
     [DefaultEnviron EXCEPT !.MAX_RISK_SCORE = 30],
     [DefaultEnviron EXCEPT !.MIN_PROFIT_MARGIN = 100],
     [DefaultEnviron EXCEPT !.MAX_OPPORTUNITIES_PER_CARD = 1]}

Charizard == <<"C", "h", "a", "r", "i", "z", "a", "r", "d">>

Events ==
    {[card_name |-> Charizard], [card_name |-> <<>>], [card_name |-> <<" ">>],
     [timestamp |-> "request-id"]}

NoProbe == [fn |-> "none"]

\* No get_market_insights call has been made.
NoInsights == [insights |-> "none"]

\* No run of detect_opportunities against the keyed store is under way.
NoDetection == [runs |-> 0, pc |-> "idle", pending |-> <<>>]

\* The scheduler is not running _cleanup_expired_opportunities.
NoSweep == [pc |-> "idle"]

\* No execution of card-arbitrage-workflow is under way.
NoWorkflow == [state |-> "none"]

-----------------------------------------------------------------------------
(* The two stores *)

\* batch_write_items: batch_size
BatchSize == 25

\* Most store calls that fail during one invocation.
MaxStoreFaults == 5

\* The outcomes a store call can have when faults more calls may fail.
CallOutcomes(faults) == IF faults > 0 THEN BOOLEAN ELSE {TRUE}

\* The elements of s at the indices of keep, in order.
SelectIndices(s, keep) ==
    [k \in 1..Cardinality(keep) |->
        s[CHOOSE i \in keep : Cardinality({j \in keep : j < i}) = k - 1]]

\* The batch of batch_write_items that holds item i.
batch_of(i) == ((i - 1) \div BatchSize) + 1

\* The ways a batch_write_items call over n items can fail when faults more calls
\* may fail: the batches whose batch_writer raises, and the items of those batches
\* whose put_item raises too.
WriteOutcomes(n, faults) ==
    {o \in [failed_batches : SUBSET {batch_of(i) : i \in 1..n},
            failed_puts : SUBSET (1..n)] :
        /\ \A i \in o.failed_puts : batch_of(i) \in o.failed_batches
        /\ Cardinality(o.failed_batches) + Cardinality(o.failed_puts) <= faults}

\* The store calls that fail in an outcome of batch_write_items.
failed_calls(outcome) == Cardinality(outcome.failed_batches) + Cardinality(outcome.failed_puts)

\* Every write succeeds.
AllWritten == [failed_batches |-> {}, failed_puts |-> {}]

\* batch_write_items: the indices of the items written.  A batch is written as a
\* whole; when its batch_writer raises, each of its items is put on its own.
written_items(items, outcome) ==
    {i \in 1..Len(items) :
        batch_of(i) \notin outcome.failed_batches \/ i \notin outcome.failed_puts}

\* batch_write_items: written_count
batch_write_items(items, outcome) == Cardinality(written_items(items, outcome))

\* Mutant of batch_write_calls: a batch is opened even when there is no item.
batch_write_calls_when_empty(items, outcome) ==
    <<[table |-> "opportunities", op |-> "batch_writer", ok |-> TRUE]>>

\* The store calls of _store_opportunities, which returns at once when it has no
\* item, and of batch_write_items, batch by batch.
batch_write_calls(items, outcome) ==
    LET n == Len(items)
        batches == (n + BatchSize - 1) \div BatchSize
        puts(b) ==
            [k \in 1..(Min(n, b * BatchSize) - (b - 1) * BatchSize) |->
                [table |-> "opportunities", op |-> "put_item",
                 ok |-> ((b - 1) * BatchSize + k) \notin outcome.failed_puts]]
    IN  Flatten([b \in 1..batches |->
                    IF b \in outcome.failed_batches
                    THEN <<[table |-> "opportunities", op |-> "batch_writer", ok |-> FALSE]>>
                         \o puts(b)
                    ELSE <<[table |-> "opportunities", op |-> "batch_writer", ok |-> TRUE]>>])

-----------------------------------------------------------------------------
(* lambda_handler *)

Idle ==
    /\ clock = 0
    /\ sweep = NoSweep
    /\ detection = NoDetection
    /\ listings = <<>>
    /\ platform_listings = [keys |-> <<>>, of |-> <<>>]
    /\ pairs_evaluated = <<>>
    /\ opportunities = <<>>
    /\ valid_opportunities = <<>>
    /\ stored_count = 0
    /\ result = [statusCode |-> 0]
    /\ opportunities_table = <<>>
    /\ opportunities_found = 0
    /\ items_to_store = <<>>
    /\ market_insights = NoInsights
    /\ store_calls = <<>>

Init ==
    /\ env \in Environs
    /\ event \in Events
    /\ listings_table \in Pools
    /\ pc = "start"
    /\ probe = NoProbe
    /\ workflow = NoWorkflow
    /\ invocations = <<>>
    /\ store_faults = MaxStoreFaults
    /\ Idle

\* The query filter of _get_active_listings.
is_active_listing(l) ==
    l.is_active /\ l.scraped_at # "stale" /\ l.price > 0 /\ l.total_cost > 0

\* Mutant of event_card_name: a missing card name defaults to 'Unknown'.
event_card_name_or_unknown(ev) ==
    IF "card_name" \in DOMAIN ev THEN ev.card_name ELSE <<"U", "n", "k", "n", "o", "w", "n">>

\* event.get('card_name', '')
event_card_name(ev) == IF "card_name" \in DOMAIN ev THEN ev.card_name ELSE <<>>

\* lambda_handler: the response of the except ValueError branch.
validation_error_response ==
    [statusCode |-> 400, error_type |-> "ValidationError", opportunities_found |-> 0]

\* lambda_handler: the response of the except Exception branch; found is the local
\* opportunities_found.
error_response(error_type, found) ==
    [statusCode |-> 500, error_type |-> error_type, opportunities_found |-> found]

\* lambda_handler up to the call of detect_opportunities: the card name is validated.
lambda_start ==
    /\ pc = "start"
    /\ IF event_card_name(event) = <<>> \/ Strip(event_card_name(event)) = <<>>
       THEN /\ result' = validation_error_response
            /\ pc' = "done"
       ELSE /\ pc' = "get_active_listings"
            /\ UNCHANGED result
    /\ UNCHANGED <<clock, sweep, detection, env, event, listings_table, opportunities_table, listings,
                   platform_listings, pairs_evaluated, opportunities,
                   valid_opportunities, stored_count, probe, opportunities_found,
                   items_to_store, market_insights, store_calls, workflow, invocations, store_faults>>

\* Mutant of listings_query_failed: the failure is swallowed and detection goes on
\* with no listing.
listings_query_swallowed ==
    /\ listings' = <<>>
    /\ pc' = "get_market_insights"
    /\ UNCHANGED result

\* _get_active_listings raises: detect_opportunities re-raises and lambda_handler
\* answers from its except Exception branch.
listings_query_failed ==
    /\ listings' = listings
    /\ pc' = "done"
    /\ result' = error_response("ClientError", opportunities_found)

\* detect_opportunities: _get_active_listings; with no listing it returns [].
get_active_listings ==
    /\ pc = "get_active_listings"
    /\ \E ok \in CallOutcomes(store_faults) :
          /\ store_calls' = Append(store_calls, [table |-> "listings", op |-> "query", ok |-> ok])
          /\ store_faults' = IF ok THEN store_faults ELSE store_faults - 1
          /\ IF ok
             THEN /\ listings' = SelectSeq(listings_table, is_active_listing)
                  /\ pc' = IF listings' = <<>> THEN "get_market_insights" ELSE "analyze"
                  /\ UNCHANGED result
             ELSE listings_query_failed
    /\ UNCHANGED <<clock, sweep, detection, env, event, listings_table, opportunities_table, platform_listings,
                   pairs_evaluated, opportunities, valid_opportunities, stored_count,
                   probe, opportunities_found, items_to_store, market_insights,
                   workflow, invocations>>

\* detect_opportunities: grouping, pairing, filtering and ranking.
analyze ==
    /\ pc = "analyze"
    /\ LET self == ArbitrageDetector(env)
           card_name == Strip(event_card_name(event))
           groups == group_listings_by_platform(listings)
           found == find_cross_platform_opportunities(self, groups, card_name)
       IN  /\ platform_listings' = groups
           /\ pairs_evaluated' = pairs_visited_by_direction(groups)
           /\ opportunities' = found
           /\ valid_opportunities' = filter_and_rank_opportunities(found)
    /\ pc' = "store_opportunities"
    /\ UNCHANGED <<clock, sweep, detection, env, event, listings_table, opportunities_table, listings,
                   stored_count, result, probe, opportunities_found, items_to_store,
                   market_insights, store_calls, workflow, invocations, store_faults>>

\* Mutant of selected_opportunities: no truncation.
selected_untruncated(self, ranked) == ranked

\* Mutant of selected_opportunities: the last elements of the ranked sequence
\* instead of the first.
selected_last(self, ranked) ==
    SubSeq(ranked, Len(ranked) - Min(self.max_opportunities_per_card, Len(ranked)) + 1, Len(ranked))

\* The opportunities detect_opportunities hands to _store_opportunities.
selected_opportunities(self, ranked) == Prefix(ranked, self.max_opportunities_per_card)

\* Mutant of store_returns: a write that fails aborts the invocation.
store_raises(outcome) ==
    IF outcome = AllWritten
    THEN pc' = "get_market_insights" /\ UNCHANGED result
    ELSE /\ pc' = "done"
         /\ result' = error_response("ClientError", opportunities_found)

\* _store_opportunities returns a count whatever the outcome of the writes, and
\* detect_opportunities returns valid_opportunities.
store_returns(outcome) ==
    /\ pc' = "get_market_insights"
    /\ UNCHANGED result

\* detect_opportunities: _store_opportunities(valid_opportunities[:max]).  With no
\* opportunity it returns 0 and calls nothing; otherwise batch_write_items writes
\* what the store accepts.
store_opportunities ==
    /\ pc = "store_opportunities"
    /\ LET selected == selected_opportunities(ArbitrageDetector(env), valid_opportunities)
       IN  \E outcome \in WriteOutcomes(Len(selected), store_faults) :
              /\ items_to_store' = selected
              /\ store_faults' = store_faults - failed_calls(outcome)
              /\ opportunities_table' =
                     opportunities_table \o SelectIndices(selected, written_items(selected, outcome))
              /\ stored_count' = batch_write_items(selected, outcome)
              /\ store_calls' = store_calls \o batch_write_calls(selected, outcome)
              /\ store_returns(outcome)
    /\ UNCHANGED <<clock, sweep, detection, env, event, listings_table, listings, platform_listings,
                   pairs_evaluated, opportunities, valid_opportunities, probe,
                   opportunities_found, market_insights, workflow, invocations>>

\* The items of the Opportunity Store under a card name.
opportunities_of(table, card_name) == SelectSeq(table, LAMBDA o : o.card_name = card_name)

\* Mutant of insights: a failed query reads as no opportunity.
insights_hiding_failure(table, card_name, ok) ==
    [card_name |-> card_name,
     total_opportunities |-> IF ok THEN Len(opportunities_of(table, card_name)) ELSE 0]

\* get_market_insights: a query of the Opportunity Store by card name; a failure of
\* the query is caught and reported inside the insights.
insights(table, card_name, ok) ==
    IF ~ok
    THEN [card_name |-> card_name, error |-> "Failed to analyze market data"]
    ELSE [card_name |-> card_name,
          total_opportunities |-> Len(opportunities_of(table, card_name))]

\* Mutant of get_market_insights: lambda_handler does not query the Opportunity
\* Store after detect_opportunities.
get_market_insights_skipped ==
    /\ pc = "get_market_insights"
    /\ opportunities_found' = Len(valid_opportunities)
    /\ market_insights' = [card_name |-> Strip(event_card_name(event)), total_opportunities |-> 0]
    /\ pc' = "respond"
    /\ UNCHANGED <<clock, sweep, detection, env, event, listings_table, opportunities_table, listings,
                   platform_listings, pairs_evaluated, opportunities,
                   valid_opportunities, stored_count, result, probe, items_to_store,
                   store_calls, store_faults, workflow, invocations>>

\* lambda_handler: detect_opportunities has returned; opportunities_found =
\* len(opportunities), then get_market_insights.
get_market_insights ==
    /\ pc = "get_market_insights"
    /\ opportunities_found' = Len(valid_opportunities)
    /\ \E ok \in CallOutcomes(store_faults) :
          /\ store_calls' = Append(store_calls,
                                   [table |-> "opportunities", op |-> "query", ok |-> ok])
          /\ store_faults' = IF ok THEN store_faults ELSE store_faults - 1
          /\ market_insights' = insights(opportunities_table, Strip(event_card_name(event)), ok)
    /\ pc' = "respond"
    /\ UNCHANGED <<clock, sweep, detection, env, event, listings_table, opportunities_table, listings,
                   platform_listings, pairs_evaluated, opportunities,
                   valid_opportunities, stored_count, result, probe, items_to_store,
                   workflow, invocations>>

\* Mutant of success_response: top_opportunities is the whole sequence.
success_response_untruncated(card_name, found, ranked, market) ==
    [statusCode |-> 200,
     card_name |-> card_name,
     opportunities_found |-> found,
     opportunities |-> ranked,
     top_opportunities |-> ranked,
     market_insights |-> market]

\* lambda_handler: the success response; ranked is what detect_opportunities
\* returned (the field opportunities keeps it for the properties).
success_response(card_name, found, ranked, market) ==
    [statusCode |-> 200,
     card_name |-> card_name,
     opportunities_found |-> found,
     opportunities |-> ranked,
     top_opportunities |-> Prefix(ranked, TopOpportunities),
     market_insights |-> market]

\* lambda_handler builds the success response and returns.
respond ==
    /\ pc = "respond"
    /\ result' = success_response(Strip(event_card_name(event)), opportunities_found,
                                  valid_opportunities, market_insights)
    /\ pc' = "done"
    /\ UNCHANGED <<clock, sweep, detection, env, event, listings_table, opportunities_table, listings,
                   platform_listings, pairs_evaluated, opportunities,
                   valid_opportunities, stored_count, probe, opportunities_found,
                   items_to_store, market_insights, store_calls, workflow, invocations, store_faults>>

Next ==
    \/ lambda_start
    \/ get_active_listings
    \/ analyze
    \/ store_opportunities
    \/ get_market_insights
    \/ respond

Spec == Init /\ [][Next]_vars

-----------------------------------------------------------------------------
(* Properties of detection *)

\* lambda_handler has returned a success response.
Responded == pc = "done" /\ result.statusCode = 200

SameItemIds(a, b) == a.buy_item_id = b.buy_item_id /\ a.sell_item_id = b.sell_item_id

\* C1.  Filter soundness: every opportunity detect_opportunities returns has
\* profit margin >= min_profit_margin, profit amount >= min_profit_amount and
\* risk score <= max_risk_score, for every pool and every configuration.
FilterSoundness ==
    Responded =>
        \A i \in 1..Len(result.opportunities) :
            LET opp == result.opportunities[i]
            IN  /\ opp.profit_margin.n * 100 >= env.MIN_PROFIT_MARGIN * opp.profit_margin.d
                /\ opp.profit_amount >= ArbitrageDetector(env).min_profit_amount
                /\ opp.risk_score <= env.MAX_RISK_SCORE

\* An opportunity is returned while another pair of the pool, which passes every
\* check but the risk threshold, is dropped.
FilterSoundnessWitness ==
    /\ Responded
    /\ result.opportunities # <<>>
    /\ \E i, j \in 1..Len(listings) :
          /\ listings[i].platform # listings[j].platform
          /\ analyze_pair(ArbitrageDetector(env), listings[i], listings[j],
                          listings[j].platform, Charizard) = <<>>
          /\ analyze_pair([ArbitrageDetector(env) EXCEPT !.max_risk_score = 50],
                          listings[i], listings[j], listings[j].platform, Charizard) # <<>>

\* C2 as stated.  The sequence detect_opportunities returns has at most
\* max_opportunities_per_card elements.
ReturnedAtMostMax ==
    Responded => Len(result.opportunities) <= env.MAX_OPPORTUNITIES_PER_CARD

\* A write to the Opportunity Store has failed.
WriteFailed ==
    \E k \in 1..Len(store_calls) :
        /\ store_calls[k].table = "opportunities"
        /\ store_calls[k].op \in {"batch_writer", "put_item"}
        /\ ~store_calls[k].ok

\* C2 amended.  detect_opportunities returns the whole ranked sequence; the sequence
\* it hands to the Opportunity Store is the ranked sequence truncated to
\* max_opportunities_per_card, so a run writes at most that many items: those
\* handed over, less the ones whose write failed.
StoredAtMostMax ==
    /\ pc \in {"get_market_insights", "respond", "done"} =>
          /\ items_to_store =
                 [i \in 1..Min(env.MAX_OPPORTUNITIES_PER_CARD, Len(valid_opportunities)) |->
                     valid_opportunities[i]]
          /\ Len(opportunities_table) <= env.MAX_OPPORTUNITIES_PER_CARD
          /\ stored_count = Len(opportunities_table)
          /\ \E keep \in SUBSET (1..Len(items_to_store)) :
                 opportunities_table = SelectIndices(items_to_store, keep)
          /\ ~WriteFailed => opportunities_table = items_to_store
    /\ Responded => result.opportunities = valid_opportunities

\* More opportunities are ranked than the configured maximum: all are returned, the
\* maximum is stored.
StoredAtMostMaxWitness ==
    /\ Responded
    /\ Len(result.opportunities) > env.MAX_OPPORTUNITIES_PER_CARD
    /\ Len(opportunities_table) = env.MAX_OPPORTUNITIES_PER_CARD

\* C3.  Scenario A: ebay 10.00 + 0 and tcgplayer 30.00 + 0, both Near Mint, ratings
\* 100, default thresholds: exactly one opportunity, buy ebay, sell tcgplayer,
\* buy total 10.00, fee 3.30, net sell 26.70, profit 16.70, margin 1.67; nothing
\* in the reverse direction.  Whether the buy listing is under an hour old or not.
ScenarioA ==
    /\ Responded
    /\ env = DefaultEnviron
    /\ listings_table \in {<<ScenarioA_buy, ScenarioA_sell>>,
                           <<ScenarioA_buy_fresh, ScenarioA_sell>>}
    => /\ Len(opportunities) = 1
       /\ Len(result.opportunities) = 1
       /\ LET opp == result.opportunities[1]
          IN  /\ opp.buy_platform = ebay
              /\ opp.sell_platform = tcgplayer
              /\ opp.buy_total = 1000
              /\ opp.platform_fees = 330
              /\ opp.net_sell_amount = 2670
              /\ opp.profit_amount = 1670
              /\ opp.profit_margin.n * 100 = 167 * opp.profit_margin.d

ScenarioAWitness ==
    /\ Responded
    /\ env = DefaultEnviron
    /\ listings_table = <<ScenarioA_buy, ScenarioA_sell>>
    /\ Len(result.opportunities) = 1

\* C4.  No self-pairing: no opportunity detection ranks, returns or stores has the
\* same item identifier on the same platform on its buy and its sell side.
NoSelfPairing ==
    \A opps \in {valid_opportunities, opportunities_table} :
        \A i \in 1..Len(opps) :
            ~(/\ opps[i].buy_item_id = opps[i].sell_item_id
              /\ opps[i].buy_platform = opps[i].sell_platform)

\* An opportunity is returned whose two listings carry the same item identifier, on
\* two platforms.
NoSelfPairingWitness ==
    /\ Responded
    /\ \E i \in 1..Len(result.opportunities) :
          /\ result.opportunities[i].buy_item_id = result.opportunities[i].sell_item_id
          /\ result.opportunities[i].buy_platform # result.opportunities[i].sell_platform

\* An opportunity as _find_cross_platform_opportunities made it.
WithoutScore(opp) == [f \in DOMAIN opp \ {"composite_score"} |-> opp[f]]

\* Among the found opportunities with the item ids of opportunities[i]: the first of
\* those with the highest confidence.
BestOfKey(i) ==
    LET same == {j \in 1..Len(opportunities) : SameItemIds(opportunities[j], opportunities[i])}
    IN  CHOOSE j \in same :
            \A k \in same :
                \/ opportunities[k].confidence_level < opportunities[j].confidence_level
                \/ /\ opportunities[k].confidence_level = opportunities[j].confidence_level
                   /\ j <= k

\* C5.  Deduplication keeps exactly one opportunity per (buy item id, sell item id):
\* the one with the highest confidence and, when several share it, the first seen.
DedupKeepsBest ==
    /\ \A i \in 1..Len(opportunities) :
          LET kept == {v \in 1..Len(valid_opportunities) :
                          SameItemIds(valid_opportunities[v], opportunities[i])}
          IN  /\ Cardinality(kept) = 1
              /\ \A v \in kept :
                    WithoutScore(valid_opportunities[v]) = opportunities[BestOfKey(i)]
    /\ \A v \in 1..Len(valid_opportunities) :
          \E i \in 1..Len(opportunities) :
              SameItemIds(valid_opportunities[v], opportunities[i])

\* Scenario E: two found opportunities collide, the later one with the higher
\* confidence.
DedupKeepsBestWitness ==
    /\ Responded
    /\ \E i, j \in 1..Len(opportunities) :
          /\ i < j
          /\ SameItemIds(opportunities[i], opportunities[j])
          /\ opportunities[i].confidence_level < opportunities[j].confidence_level

\* The place of an opportunity's key in the deduplicated sequence: the place of the
\* first found opportunity with its item ids.
FirstSeen(opp) ==
    CHOOSE i \in 1..Len(opportunities) :
        /\ SameItemIds(opportunities[i], opp)
        /\ \A j \in 1..(i - 1) : ~SameItemIds(opportunities[j], opp)

\* (profit margin x confidence) / max(risk, 0.1), from the opportunity's amounts.
ExpectedScore(opp) ==
    [n |-> opp.profit_amount * opp.confidence_level * 10,
     d |-> opp.buy_total * (IF opp.risk_score < 1 THEN 1 ELSE opp.risk_score)]

\* C6.  Ranking: the ranked sequence is non-increasing in composite score =
\* (profit margin x confidence) / max(risk, 0.1), and opportunities of equal score
\* keep the order they have in the deduplicated sequence.
RankingOrder ==
    /\ \A i \in 1..Len(valid_opportunities) :
          RatEq(valid_opportunities[i].composite_score, ExpectedScore(valid_opportunities[i]))
    /\ \A i, j \in 1..Len(valid_opportunities) :
          i < j =>
              /\ ~RatLess(valid_opportunities[i].composite_score,
                          valid_opportunities[j].composite_score)
              /\ RatEq(valid_opportunities[i].composite_score,
                       valid_opportunities[j].composite_score)
                 => FirstSeen(valid_opportunities[i]) < FirstSeen(valid_opportunities[j])

\* Three opportunities are returned, two of equal score and one of a different score.
RankingOrderWitness ==
    /\ Responded
    /\ \E i, j, k \in 1..Len(result.opportunities) :
          /\ i < j
          /\ RatEq(result.opportunities[i].composite_score,
                   result.opportunities[j].composite_score)
          /\ ~RatEq(result.opportunities[i].composite_score,
                    result.opportunities[k].composite_score)

\* C7 as stated.  Scenario C: two listings on two platforms, one Mint and one Heavily
\* Played, priced 10.00 and 30.00: the result is empty, whichever is the cheaper.
ScenarioCEmpty ==
    /\ Responded
    /\ env = DefaultEnviron
    /\ listings_table \in {<<ScenarioC_played_cheap, ScenarioC_mint_dear>>,
                           <<ScenarioC_mint_cheap, ScenarioC_played_dear>>}
    => result.opportunities = <<>>

\* C7 amended.  Scenario C: when the Heavily Played listing is the cheaper one (the
\* buy side) the result is empty; when the Mint listing is the cheaper one the
\* conditions are compatible and the one opportunity, buy Mint and sell Heavily
\* Played, is returned.
ScenarioCBuySide ==
    Responded /\ env = DefaultEnviron =>
        /\ listings_table = <<ScenarioC_played_cheap, ScenarioC_mint_dear>>
           => result.opportunities = <<>>
        /\ listings_table = <<ScenarioC_mint_cheap, ScenarioC_played_dear>>
           => /\ Len(result.opportunities) = 1
              /\ result.opportunities[1].buy_condition = Mint
              /\ result.opportunities[1].sell_condition = HeavilyPlayed

\* The Heavily Played listing is the buy side of a pair that passes the profit and
\* price-ratio checks and is stopped at the condition check.
ScenarioCBuySideWitness ==
    /\ Responded
    /\ env = DefaultEnviron
    /\ listings_table = <<ScenarioC_played_cheap, ScenarioC_mint_dear>>
    /\ result.opportunities = <<>>
    /\ analyze_pair(ArbitrageDetector(env),
                    [ScenarioC_played_cheap EXCEPT !.condition = Mint],
                    ScenarioC_mint_dear, tcgplayer, Charizard) # <<>>

\* The store calls of lambda_handler that match a table, some operations and an
\* outcome.
StoreCalls(table, ops, oks) ==
    {k \in 1..Len(store_calls) :
        /\ store_calls[k].table = table
        /\ store_calls[k].op \in ops
        /\ store_calls[k].ok \in oks}

\* The listings the query of _get_active_listings matches.
ActiveListings == SelectSeq(listings_table, is_active_listing)

\* No two active listings on different platforms make an opportunity: there is no
\* listing, or one platform only, or every candidate pair is filtered out.
NothingToFind ==
    \A i, j \in 1..Len(ActiveListings) :
        ActiveListings[i].platform # ActiveListings[j].platform =>
            analyze_pair(ArbitrageDetector(env), ActiveListings[i], ActiveListings[j],
                         ActiveListings[j].platform, Strip(event_card_name(event))) = <<>>

\* lambda_handler has returned after a successful query of the Listing Store.
DoneAfterListingsRead == pc = "done" /\ StoreCalls("listings", {"query"}, {TRUE}) # {}

\* C12.  When the listing pool is empty, or on a single platform, or every candidate
\* pair is filtered out, detection ends with the success response, an empty
\* sequence and count 0, and no write to the Opportunity Store.
NoOpportunitiesIsSuccess ==
    DoneAfterListingsRead /\ NothingToFind =>
        /\ result.statusCode = 200
        /\ result.opportunities = <<>>
        /\ result.top_opportunities = <<>>
        /\ result.opportunities_found = 0
        /\ opportunities_table = <<>>
        /\ StoreCalls("opportunities", {"batch_writer", "put_item"}, BOOLEAN) = {}

\* Scenario B: listings on a single platform, and a completed invocation.
NoOpportunitiesIsSuccessWitness ==
    /\ DoneAfterListingsRead
    /\ Len(listings) >= 2
    /\ \A i \in 1..Len(listings) : listings[i].platform = listings[1].platform
    /\ result.statusCode = 200
    /\ result.opportunities_found = 0

\* The event carries no card name, an empty one, or one of white space only.
InvalidCardName ==
    \/ "card_name" \notin DOMAIN event
    \/ event.card_name = <<>>
    \/ \A k \in 1..Len(event.card_name) : event.card_name[k] \in Whitespace

\* C13.  An invocation whose card name is missing, empty or blank ends with the
\* ValidationError response, opportunities_found 0, and calls neither store.
ValidationBeforeStores ==
    InvalidCardName =>
        /\ pc \in {"start", "done"}
        /\ store_calls = <<>>
        /\ opportunities_table = <<>>
        /\ pc = "done" =>
              /\ result.statusCode = 400
              /\ result.error_type = "ValidationError"
              /\ result.opportunities_found = 0

\* The event of the orchestrator without its card name: rejected.
ValidationBeforeStoresWitness ==
    /\ "card_name" \notin DOMAIN event
    /\ pc = "done"
    /\ result.error_type = "ValidationError"
    /\ listings_table # <<>>

\* A call of the Listing Store has failed.
ListingsQueryFailed == StoreCalls("listings", {"query"}, {FALSE}) # {}

\* A query of the Opportunity Store by get_market_insights has failed.
InsightsQueryFailed == StoreCalls("opportunities", {"query"}, {FALSE}) # {}

\* Something has failed during the invocation.
SomethingFailed ==
    InvalidCardName \/ ListingsQueryFailed \/ WriteFailed \/ InsightsQueryFailed

\* lambda_handler has returned from one of its except branches.
ErrorResponse ==
    /\ pc = "done"
    /\ result.statusCode # 200
    /\ "error_type" \in DOMAIN result

\* C14 as stated.  Whatever fails during an invocation, the response carries an
\* error classification and opportunities_found 0.
AnyFailureYieldsZero ==
    pc = "done" /\ SomethingFailed => ErrorResponse /\ result.opportunities_found = 0

\* C14 amended.  A failure of validation or of the Listing Store query yields an
\* error response with opportunities_found 0, and no error response carries another
\* count; a failure of a write or of the market-insight query yields none: the
\* response is the success response with the count of the opportunities found.
AbortingFailuresYieldZero ==
    pc = "done" =>
        /\ ErrorResponse <=> (InvalidCardName \/ ListingsQueryFailed)
        /\ ErrorResponse => result.opportunities_found = 0
        /\ ~ErrorResponse =>
              /\ result.statusCode = 200
              /\ "error_type" \notin DOMAIN result
              /\ result.opportunities_found = Len(valid_opportunities)

\* A write has failed and the response is a success with a count above 0.
AbortingFailuresYieldZeroWitness ==
    /\ pc = "done"
    /\ WriteFailed
    /\ result.statusCode = 200
    /\ result.opportunities_found > 0

\* The card name is valid, so both stores are in play.
ValidCardName == ~InvalidCardName

\* Every call of the Opportunity Store has failed, and there was one.
OpportunityStoreUnreachable ==
    /\ StoreCalls("opportunities", {"batch_writer", "put_item", "query"}, {FALSE}) # {}
    /\ StoreCalls("opportunities", {"batch_writer", "put_item", "query"}, {TRUE}) = {}

\* C15 as stated.  With the Listing Store or the Opportunity Store unreachable the
\* invocation does not end with a success result.
StoreUnavailableIsFailure ==
    pc = "done" /\ ValidCardName /\ (ListingsQueryFailed \/ OpportunityStoreUnreachable) =>
        result.statusCode # 200

\* C15 amended.  With the Listing Store unreachable lambda_handler returns the
\* error response (statusCode 500, the exception's class, opportunities_found 0)
\* and the Opportunity Store is not called; with the Opportunity Store unreachable
\* it returns the success response with the opportunities found, nothing stored
\* and the failure reported inside market_insights.
StoreUnavailableOutcome ==
    pc = "done" /\ ValidCardName =>
        /\ ListingsQueryFailed =>
              /\ result = error_response("ClientError", 0)
              /\ StoreCalls("opportunities", {"batch_writer", "put_item", "query"}, BOOLEAN) = {}
              /\ opportunities_table = <<>>
        /\ ~ListingsQueryFailed /\ OpportunityStoreUnreachable =>
              /\ result.statusCode = 200
              /\ result.opportunities = valid_opportunities
              /\ opportunities_table = <<>>
              /\ stored_count = 0
              /\ "error" \in DOMAIN result.market_insights

\* The Opportunity Store refuses the batch, the single puts and the query, and
\* the response is a success with opportunities.
StoreUnavailableOutcomeWitness ==
    /\ pc = "done"
    /\ OpportunityStoreUnreachable
    /\ WriteFailed
    /\ InsightsQueryFailed
    /\ result.statusCode = 200
    /\ result.opportunities # <<>>

\* What detect_opportunities returns for the pool: it does not depend on the store.
computed_opportunities ==
    LET self == ArbitrageDetector(env)
    IN  filter_and_rank_opportunities(
            find_cross_platform_opportunities(self, group_listings_by_platform(ActiveListings),
                                              Strip(event_card_name(event))))

\* C16.  When some or all writes of the selected opportunities fail, the invocation
\* still ends with the success response, and it carries the opportunities it
\* carries when every write succeeds: those computed from the listing pool.
PersistenceFailureNotFatal ==
    pc = "done" /\ WriteFailed =>
        /\ result.statusCode = 200
        /\ result.opportunities = computed_opportunities
        /\ result.opportunities_found = Len(computed_opportunities)
        /\ result.top_opportunities = Prefix(computed_opportunities, TopOpportunities)

\* Some writes fail and some succeed, and the response is complete.
PersistenceFailureNotFatalWitness ==
    /\ pc = "done"
    /\ WriteFailed
    /\ 0 < stored_count
    /\ stored_count < Len(items_to_store)
    /\ result.statusCode = 200
    /\ Len(result.opportunities) = Len(items_to_store)

\* C17.  In a success response opportunities_found is the number of opportunities
\* that passed filtering and deduplication, counted before the truncation to
\* max_opportunities_per_card, and top_opportunities is the first min(5,
\* opportunities_found) elements of the ranked sequence.
SuccessResponseShape ==
    Responded =>
        /\ result.opportunities_found =
               Cardinality({<<opportunities[i].buy_item_id, opportunities[i].sell_item_id>> :
                               i \in 1..Len(opportunities)})
        /\ result.opportunities_found = Len(valid_opportunities)
        /\ result.opportunities_found >= Len(items_to_store)
        /\ Len(result.top_opportunities) = Min(TopOpportunities, result.opportunities_found)
        /\ \A i \in 1..Len(result.top_opportunities) :
              result.top_opportunities[i] = valid_opportunities[i]

\* More opportunities than are stored, and more stored than are in the response.
SuccessResponseShapeWitness ==
    /\ Responded
    /\ result.opportunities_found > Len(items_to_store)
    /\ Len(items_to_store) > TopOpportunities
    /\ Len(result.top_opportunities) = TopOpportunities

\* Steps a to f of the pairing for a buy listing and a sell listing of different
\* platforms: positive amounts, estimated profit, price ratio, compatible
\* conditions, minimum margin and profit, maximum risk.
PassesSteps(self, buy, sell) ==
    LET fees == calculate_platform_fees(sell.platform, sell.price)
        profit == sell.price - fees - buy.total_cost
    IN  /\ buy.total_cost > 0
        /\ sell.price > 0
        /\ profit >= self.min_profit_amount
        /\ buy.total_cost * 10 <= sell.price * self.max_price_ratio
        /\ assess_condition_compatibility(buy.condition, sell.condition)
        /\ profit * 100 >= self.min_profit_margin * buy.total_cost
        /\ calculate_risk_score(buy, sell) <= self.max_risk_score

\* The active listings of a platform, by ascending total cost (the query's order
\* among equal costs).
ListingsOn(platform) ==
    LET group == SelectSeq(listings, LAMBDA l : l.platform = platform)
    IN  StableSort(group, by_total_cost(group))

\* The platforms of the query result.
PlatformsPresent == {listings[i].platform : i \in 1..Len(listings)}

\* detect_opportunities has run _find_cross_platform_opportunities.
Analysed == listings # <<>> /\ pc \in {"store_opportunities", "get_market_insights", "respond", "done", "returned"}

\* C20.  For every ordered pair of distinct platforms of the pool, every buy
\* listing among the 50 cheapest of the first and sell listing among the 50
\* cheapest of the second that pass steps a to f have an opportunity in the output
\* of _find_cross_platform_opportunities, and each direction of each platform pair
\* is analysed once.
EnumerationComplete ==
    Analysed =>
        /\ \A p, q \in PlatformsPresent :
              p # q =>
                  /\ Cardinality({d \in 1..Len(pairs_evaluated) :
                                     /\ pairs_evaluated[d].buy_platform = p
                                     /\ pairs_evaluated[d].sell_platform = q}) = 1
                  /\ \A a \in 1..Min(MaxPairItems, Len(ListingsOn(p))) :
                        \A b \in 1..Min(MaxPairItems, Len(ListingsOn(q))) :
                            PassesSteps(ArbitrageDetector(env), ListingsOn(p)[a], ListingsOn(q)[b]) =>
                                \E k \in 1..Len(opportunities) :
                                    /\ opportunities[k].buy_platform = p
                                    /\ opportunities[k].sell_platform = q
                                    /\ opportunities[k].buy_item_id = ListingsOn(p)[a].item_id
                                    /\ opportunities[k].sell_item_id = ListingsOn(q)[b].item_id

\* Three platforms, six directions analysed, and an opportunity that buys on the
\* platform read later from the store and sells on the one read first.
EnumerationCompleteWitness ==
    /\ Analysed
    /\ Cardinality(PlatformsPresent) >= 3
    /\ Len(pairs_evaluated) = 6
    /\ \E k \in 1..Len(opportunities) :
          \E i, j \in 1..Len(listings) :
              /\ i < j
              /\ listings[j].platform = opportunities[k].buy_platform
              /\ listings[i].platform = opportunities[k].sell_platform
              /\ \A h \in 1..(j - 1) : listings[h].platform # listings[j].platform

-----------------------------------------------------------------------------
(* The workflow card-arbitrage-workflow: scrape, detect, notify *)

\* ScrapeEbayTask.add_retry(errors=["States.ALL"], max_attempts=3)
ScrapeMaxAttempts == 3

\* DetectArbitrageTask.add_retry(errors=["States.TaskFailed"], max_attempts=2)
DetectMaxAttempts == 2

\* ' '.join(s.split()) on a stripped s: each run of white space becomes one space.
RECURSIVE JoinSplit(_, _)
JoinSplit(s, in_gap) ==
    IF s = <<>> THEN <<>>
    ELSE IF Head(s) \in Whitespace
    THEN IF in_gap THEN JoinSplit(Tail(s), TRUE) ELSE <<" ">> \o JoinSplit(Tail(s), TRUE)
    ELSE <<Head(s)>> \o JoinSplit(Tail(s), FALSE)

\* clean_card_name: white space normalised, quotes removed; ok is FALSE where the
\* function raises APIError (fewer than 2 characters left).
clean_card_name(card_name) ==
    LET cleaned == SelectSeq(JoinSplit(Strip(card_name), FALSE),
                             LAMBDA c : c \notin {"\"", "'"})
    IN  [ok |-> Len(cleaned) >= 2, value |-> cleaned]

\* The card names an execution is started with.
WorkflowCardNames ==
    {Charizard, <<" ">>, <<"C">>, <<" ", "M", "e", "w", " ", " ", "'", "V", "'", " ">>}

\* The scraper writes listings of platform 'ebay' only.
not_scraped(table) == SelectSeq(table, LAMBDA l : l.platform # ebay)

\* The pools the Listing Store holds before the scraper has run: listings of the
\* other platforms.
WorkflowPools == {p \in Pools : Len(p) <= 1 /\ not_scraped(p) = p}

ItemKeys(table) == {<<table[i].platform, table[i].item_id>> : i \in 1..Len(table)}

\* The contents of the Listing Store after the scraper's batch_write_items: items of
\* other platforms are as before, ebay items are added or overwritten by key, none
\* is removed.
ScrapeOutcomes(table) ==
    {p \in Pools : not_scraped(p) = not_scraped(table) /\ ItemKeys(table) \subseteq ItemKeys(p)}

\* ebay_scraper lambda_handler: the success response.
scraper_response(card_name) == [statusCode |-> 200, platform |-> ebay, card_name |-> card_name]

\* ebay_scraper lambda_handler: the response of its except branch; it has no card_name.
scraper_error_response(error_type) ==
    [statusCode |-> 500, platform |-> ebay, error_type |-> error_type]

\* notification lambda_handler: the response.
notification_response(ev) ==
    [statusCode |-> 200,
     notifications_sent |-> IF (IF "opportunities_found" \in DOMAIN ev
                                THEN ev.opportunities_found ELSE 0) > 0 THEN 1 ELSE 0]

\* Mutant of number_greater_than: greater than or equal.
number_greater_than_equals(value, threshold) == value >= threshold

\* sfn.Condition.number_greater_than("$.opportunities_found", 0)
number_greater_than(value, threshold) == value > threshold

\* The variables of one detector invocation.
invocation_vars ==
    <<listings, platform_listings, pairs_evaluated, opportunities, valid_opportunities,
      stored_count, result, opportunities_found, items_to_store, market_insights>>

\* orchestrator lambda_handler: start_execution with the card name of its event.
start_execution ==
    /\ workflow = NoWorkflow
    /\ pc = "idle"
    /\ \E card_name \in WorkflowCardNames :
          workflow' = [state |-> "ScrapeEbayTask",
                       input |-> [card_name |-> card_name, timestamp |-> "request-id"],
                       retries |-> 0, detected |-> -1, notified |-> 0]
    /\ UNCHANGED <<clock, sweep, detection, env, event, listings_table, opportunities_table, pc, invocation_vars,
                   probe, store_calls, invocations, store_faults>>

\* A task has failed: it is retried while retries are left, then the execution fails.
task_failed(max_attempts) ==
    IF workflow.retries < max_attempts
    THEN [workflow EXCEPT !.retries = @ + 1]
    ELSE [workflow EXCEPT !.state = "Failed"]

\* ScrapeEbayTask: the scraper returns its success response after writing what it
\* found, or its error response, or the task fails (time-out, crash).
scrape_ebay_task ==
    /\ workflow.state = "ScrapeEbayTask"
    /\ LET stripped == Strip(event_card_name(workflow.input))
           cleaned == clean_card_name(stripped)
       IN  \/ /\ stripped # <<>> /\ cleaned.ok
              /\ listings_table' \in ScrapeOutcomes(listings_table)
              /\ workflow' = [workflow EXCEPT !.state = "DetectArbitrageTask",
                                              !.input = scraper_response(cleaned.value),
                                              !.retries = 0]
           \/ /\ \E error_type \in IF stripped = <<>> THEN {"ValueError"}
                                   ELSE IF ~cleaned.ok THEN {"APIError"}
                                   ELSE {"ConnectionError"} :
                     workflow' = [workflow EXCEPT !.state = "DetectArbitrageTask",
                                                  !.input = scraper_error_response(error_type),
                                                  !.retries = 0]
              /\ UNCHANGED listings_table
           \/ /\ workflow' = task_failed(ScrapeMaxAttempts)
              /\ UNCHANGED listings_table
    /\ UNCHANGED <<clock, sweep, detection, env, event, opportunities_table, pc, invocation_vars, probe,
                   store_calls, invocations, store_faults>>

\* DetectArbitrageTask invokes the detector with the scraper's response as event.
detect_arbitrage_task ==
    /\ workflow.state = "DetectArbitrageTask"
    /\ pc = "idle"
    /\ event' = workflow.input
    /\ pc' = "start"
    /\ UNCHANGED <<clock, sweep, detection, env, listings_table, opportunities_table, invocation_vars, probe,
                   store_calls, workflow, invocations, store_faults>>

\* The detector's invocation fails before it returns (time-out, crash): its locals
\* are lost, what it has written stays written.
detect_arbitrage_fails ==
    /\ workflow.state = "DetectArbitrageTask"
    /\ pc \in {"start", "get_active_listings", "analyze", "store_opportunities",
               "get_market_insights", "respond"}
    /\ workflow' = task_failed(DetectMaxAttempts)
    /\ pc' = "idle"
    /\ listings' = <<>>
    /\ platform_listings' = [keys |-> <<>>, of |-> <<>>]
    /\ pairs_evaluated' = <<>>
    /\ opportunities' = <<>>
    /\ valid_opportunities' = <<>>
    /\ stored_count' = 0
    /\ result' = [statusCode |-> 0]
    /\ opportunities_found' = 0
    /\ items_to_store' = <<>>
    /\ market_insights' = NoInsights
    /\ UNCHANGED <<clock, sweep, detection, env, event, listings_table, opportunities_table, probe, store_calls,
                   invocations, store_faults>>

\* The detector has returned: its response is the input of CheckOpportunities.
detect_arbitrage_returns ==
    /\ workflow.state = "DetectArbitrageTask"
    /\ pc = "done"
    /\ workflow' = [workflow EXCEPT !.state = "CheckOpportunities",
                                    !.input = result,
                                    !.retries = 0,
                                    !.detected = result.opportunities_found]
    /\ pc' = "returned"
    /\ UNCHANGED <<clock, sweep, detection, env, event, listings_table, opportunities_table, invocation_vars,
                   probe, store_calls, invocations, store_faults>>

\* CheckOpportunities: the Choice state.
check_opportunities ==
    /\ workflow.state = "CheckOpportunities"
    /\ workflow' = [workflow EXCEPT !.state =
                        IF number_greater_than(workflow.input.opportunities_found, 0)
                        THEN "SendNotificationsTask" ELSE "NoOpportunities"]
    /\ UNCHANGED <<clock, sweep, detection, env, event, listings_table, opportunities_table, pc, invocation_vars,
                   probe, store_calls, invocations, store_faults>>

\* SendNotificationsTask invokes the notification handler; the execution succeeds
\* with its response, or fails when the task fails (no retry is declared).
send_notifications_task ==
    /\ workflow.state = "SendNotificationsTask"
    /\ \/ workflow' = [workflow EXCEPT !.state = "Succeeded",
                                       !.input = notification_response(workflow.input),
                                       !.notified = @ + 1]
       \/ workflow' = [workflow EXCEPT !.state = "Failed", !.notified = @ + 1]
    /\ UNCHANGED <<clock, sweep, detection, env, event, listings_table, opportunities_table, pc, invocation_vars,
                   probe, store_calls, invocations, store_faults>>

InitWorkflow ==
    /\ env = DefaultEnviron
    /\ event = [timestamp |-> "request-id"]
    /\ listings_table \in WorkflowPools
    /\ pc = "idle"
    /\ probe = NoProbe
    /\ workflow = NoWorkflow
    /\ invocations = <<>>
    /\ store_faults = 1
    /\ Idle

NextWorkflow ==
    \/ start_execution
    \/ scrape_ebay_task
    \/ detect_arbitrage_task
    \/ lambda_start
    \/ get_active_listings
    \/ analyze
    \/ store_opportunities
    \/ get_market_insights
    \/ respond
    \/ detect_arbitrage_returns
    \/ detect_arbitrage_fails
    \/ check_opportunities
    \/ send_notifications_task

SpecWorkflow == InitWorkflow /\ [][NextWorkflow]_vars

\* The execution has reached SendNotificationsTask or gone through it.
NotificationInvoked ==
    workflow.state = "SendNotificationsTask" \/ workflow.notified > 0

\* C18.  The notification step is invoked only after a detection step has returned
\* opportunities_found > 0, and at most once; when detection returns 0, which
\* every error response of the detector does, the execution goes from
\* CheckOpportunities to the Succeed state NoOpportunities and notification is
\* not invoked.
WorkflowBranching ==
    workflow # NoWorkflow =>
        /\ NotificationInvoked => workflow.detected > 0
        /\ workflow.notified <= 1
        /\ workflow.state = "Succeeded" => workflow.notified = 1
        /\ workflow.detected = 0 =>
              /\ workflow.state \in {"CheckOpportunities", "NoOpportunities"}
              /\ ~NotificationInvoked
        /\ workflow.detected >= 0 /\ result.statusCode # 200 => workflow.detected = 0
        /\ workflow.state = "NoOpportunities" => workflow.detected = 0
        /\ workflow.detected = -1 =>
              workflow.state \in {"ScrapeEbayTask", "DetectArbitrageTask", "Failed"}

\* The scraper answered with its error response, the detector with its
\* ValidationError response, and the execution ended in NoOpportunities.
WorkflowBranchingWitness ==
    /\ workflow # NoWorkflow
    /\ workflow.state = "NoOpportunities"
    /\ "card_name" \notin DOMAIN event
    /\ result.error_type = "ValidationError"
    /\ workflow.notified = 0

-----------------------------------------------------------------------------
(* Two invocations of the detector at the same time, on the same two tables *)

Pikachu == <<"P", "i", "k", "a", "c", "h", "u">>

\* The events of the two invocations; strip() makes the second name Pikachu.
ConcurrentEvents == <<[card_name |-> Charizard], [card_name |-> <<" ">> \o Pikachu \o <<" ">>]>>

\* An item of the listings table with its card_name attribute.
with_card_name(item, card_name) ==
    [f \in DOMAIN item \cup {"card_name"} |-> IF f = "card_name" THEN card_name ELSE item[f]]

\* The listings a card has in the store.
ConcurrentPools ==
    {<<>>,
     <<ScenarioA_buy>>,
     <<ScenarioA_buy, ScenarioA_sell>>,
     <<ScenarioA_buy, Listing(comc, "i1", 2000, 500, NearMint, 100, "naive", TRUE), ScenarioA_sell>>}

\* Mutant of query_by_card_name: the key condition is dropped.
query_any_card_name(table, card_name) == table

\* query(IndexName='card-name-index', KeyConditionExpression=Key('card_name').eq(card_name))
query_by_card_name(table, card_name) == SelectSeq(table, LAMBDA item : item.card_name = card_name)

\* An invocation that has not started: the locals of lambda_handler and of
\* detect_opportunities.
Invocation(ev) ==
    [event |-> ev, pc |-> "start", listings |-> <<>>, valid_opportunities |-> <<>>,
     items_to_store |-> <<>>, stored_count |-> 0, opportunities_found |-> 0,
     market_insights |-> NoInsights, result |-> [statusCode |-> 0]]

InitConcurrent ==
    /\ env = DefaultEnviron
    /\ event = [timestamp |-> "request-id"]
    /\ \E p1, p2 \in ConcurrentPools :
          listings_table =
              [k \in 1..Len(p1) |-> with_card_name(p1[k], Strip(ConcurrentEvents[1].card_name))]
              \o [k \in 1..Len(p2) |-> with_card_name(p2[k], Strip(ConcurrentEvents[2].card_name))]
    /\ pc = "concurrent"
    /\ probe = NoProbe
    /\ workflow = NoWorkflow
    /\ invocations = [i \in 1..2 |-> Invocation(ConcurrentEvents[i])]
    /\ store_faults = 0
    /\ Idle

\* What a step of an invocation leaves alone.
shared_unchanged ==
    UNCHANGED <<clock, sweep, detection, env, event, listings_table, pc, invocation_vars, probe, store_calls,
                workflow, store_faults>>

\* lambda_handler of invocation i: the card name is validated.
concurrent_start(i) ==
    /\ invocations[i].pc = "start"
    /\ invocations' =
           [invocations EXCEPT ![i] =
               IF Strip(event_card_name(@.event)) = <<>>
               THEN [@ EXCEPT !.pc = "done", !.result = validation_error_response]
               ELSE [@ EXCEPT !.pc = "get_active_listings"]]
    /\ UNCHANGED opportunities_table
    /\ shared_unchanged

\* _get_active_listings of invocation i.
concurrent_get_active_listings(i) ==
    /\ invocations[i].pc = "get_active_listings"
    /\ LET card_name == Strip(event_card_name(invocations[i].event))
           found == SelectSeq(query_by_card_name(listings_table, card_name), is_active_listing)
       IN  invocations' =
               [invocations EXCEPT ![i].listings = found,
                                   ![i].pc = IF found = <<>> THEN "get_market_insights"
                                             ELSE "analyze"]
    /\ UNCHANGED opportunities_table
    /\ shared_unchanged

\* detect_opportunities of invocation i: grouping, pairing, filtering, ranking and
\* the items _store_opportunities prepares.
concurrent_analyze(i) ==
    /\ invocations[i].pc = "analyze"
    /\ LET self == ArbitrageDetector(env)
           card_name == Strip(event_card_name(invocations[i].event))
           ranked == filter_and_rank_opportunities(
                         find_cross_platform_opportunities(
                             self, group_listings_by_platform(invocations[i].listings), card_name))
           selected == selected_opportunities(self, ranked)
       IN  invocations' =
               [invocations EXCEPT ![i].valid_opportunities = ranked,
                                   ![i].items_to_store = selected,
                                   ![i].pc = IF selected = <<>> THEN "get_market_insights"
                                             ELSE "store_opportunities"]
    /\ UNCHANGED opportunities_table
    /\ shared_unchanged

\* batch_write_items of invocation i: the store takes the items of a batch one by
\* one, so the writes of two invocations interleave.
concurrent_put_item(i) ==
    /\ invocations[i].pc = "store_opportunities"
    /\ LET k == invocations[i].stored_count + 1
       IN  /\ opportunities_table' = Append(opportunities_table, invocations[i].items_to_store[k])
           /\ invocations' =
                  [invocations EXCEPT ![i].stored_count = k,
                                      ![i].pc = IF k = Len(invocations[i].items_to_store)
                                                THEN "get_market_insights"
                                                ELSE "store_opportunities"]
    /\ shared_unchanged

\* lambda_handler of invocation i: opportunities_found, then get_market_insights,
\* whose query the store answers or refuses.
concurrent_get_market_insights(i) ==
    /\ invocations[i].pc = "get_market_insights"
    /\ \E ok \in BOOLEAN :
          invocations' =
              [invocations EXCEPT ![i].opportunities_found = Len(invocations[i].valid_opportunities),
                                  ![i].market_insights =
                                      insights(opportunities_table,
                                               Strip(event_card_name(invocations[i].event)), ok),
                                  ![i].pc = "respond"]
    /\ UNCHANGED opportunities_table
    /\ shared_unchanged

\* lambda_handler of invocation i returns the success response.
concurrent_respond(i) ==
    /\ invocations[i].pc = "respond"
    /\ invocations' =
           [invocations EXCEPT ![i].result =
                                   success_response(
                                       Strip(event_card_name(invocations[i].event)),
                                       invocations[i].opportunities_found,
                                       invocations[i].valid_opportunities,
                                       invocations[i].market_insights),
                               ![i].pc = "done"]
    /\ UNCHANGED opportunities_table
    /\ shared_unchanged

NextConcurrent ==
    \E i \in 1..2 :
        \/ concurrent_start(i)
        \/ concurrent_get_active_listings(i)
        \/ concurrent_analyze(i)
        \/ concurrent_put_item(i)
        \/ concurrent_get_market_insights(i)
        \/ concurrent_respond(i)

SpecConcurrent == InitConcurrent /\ [][NextConcurrent]_vars

\* The card name of invocation i.
CardNameOf(i) == Strip(event_card_name(invocations[i].event))

\* What detect_opportunities returns for invocation i when it runs alone: the
\* ranking of the opportunities of its own card's listings.
AloneOpportunities(i) ==
    LET self == ArbitrageDetector(env)
        own == SelectSeq(listings_table, LAMBDA item : item.card_name = CardNameOf(i))
    IN  filter_and_rank_opportunities(
            find_cross_platform_opportunities(
                self, group_listings_by_platform(SelectSeq(own, is_active_listing)),
                CardNameOf(i)))

\* What invocation i stores when it runs alone.
AloneStored(i) == selected_opportunities(ArbitrageDetector(env), AloneOpportunities(i))

\* The response of invocation i when it runs alone and the store answers its
\* market-insight query as it did in this run.
AloneResult(i) ==
    success_response(CardNameOf(i), Len(AloneOpportunities(i)), AloneOpportunities(i),
                     insights(AloneStored(i), CardNameOf(i),
                              "error" \notin DOMAIN invocations[i].market_insights))

\* C19.  Two invocations for different card names, in any interleaving of their
\* steps and of their single writes: each reads only listings of its own card,
\* the store holds under each card name what that invocation stores alone (a
\* prefix of it while it is writing), and each returns what it returns alone.
ConcurrentIndependence ==
    invocations # <<>> =>
        \A i \in 1..2 :
            /\ \A k \in 1..Len(invocations[i].listings) :
                  invocations[i].listings[k].card_name = CardNameOf(i)
            /\ \A k \in 1..Len(invocations[i].items_to_store) :
                  invocations[i].items_to_store[k].card_name = CardNameOf(i)
            /\ opportunities_of(opportunities_table, CardNameOf(i)) =
                  Prefix(AloneStored(i), invocations[i].stored_count)
            /\ invocations[i].pc \in {"get_market_insights", "respond", "done"} =>
                  opportunities_of(opportunities_table, CardNameOf(i)) = AloneStored(i)
            /\ invocations[i].pc = "done" => invocations[i].result = AloneResult(i)

\* Both invocations have returned opportunities and their writes are interleaved
\* in the store.
ConcurrentIndependenceWitness ==
    /\ invocations # <<>>
    /\ \A i \in 1..2 : invocations[i].pc = "done" /\ invocations[i].result.opportunities # <<>>
    /\ \E a, b, c \in 1..Len(opportunities_table) :
          /\ a < b /\ b < c
          /\ opportunities_table[a].card_name = opportunities_table[c].card_name
          /\ opportunities_table[b].card_name # opportunities_table[a].card_name

\* The opportunity passes the three thresholds of _calculate_detailed_opportunity.
PassesThresholds(opp) ==
    /\ opp.profit_margin.n * 100 >= env.MIN_PROFIT_MARGIN * opp.profit_margin.d
    /\ opp.profit_amount >= ArbitrageDetector(env).min_profit_amount
    /\ opp.risk_score <= env.MAX_RISK_SCORE

\* C21.  Persisted selection: the opportunities a detection run submits to the
\* Opportunity Store are exactly the first min(max_opportunities_per_card, n)
\* elements of the ranked, deduplicated sequence of n elements; every item written
\* is one of those, passes the thresholds, and no element ranked below the top
\* max_opportunities_per_card is written.
PersistedSelection ==
    pc \in {"get_market_insights", "respond", "done"} =>
        LET ranked == filter_and_rank_opportunities(opportunities)
            top == Min(env.MAX_OPPORTUNITIES_PER_CARD, Len(ranked))
        IN  /\ Len(items_to_store) = top
            /\ \A i \in 1..top : items_to_store[i] = ranked[i]
            /\ \A k \in 1..Len(opportunities_table) :
                  /\ \E i \in 1..top : opportunities_table[k] = ranked[i]
                  /\ PassesThresholds(opportunities_table[k])
                  /\ \A i \in (top + 1)..Len(ranked) : opportunities_table[k] # ranked[i]

\* Two opportunities are ranked with a maximum of one: the first is written, the
\* second is not.
PersistedSelectionWitness ==
    /\ pc = "done"
    /\ env.MAX_OPPORTUNITIES_PER_CARD = 1
    /\ Len(filter_and_rank_opportunities(opportunities)) >= 2
    /\ opportunities_table = <<filter_and_rank_opportunities(opportunities)[1]>>

\* The writes to the Opportunity Store issued so far.
OpportunityWrites == StoreCalls("opportunities", {"batch_writer", "put_item"}, BOOLEAN)

\* The reads of the Opportunity Store issued so far.
OpportunityReads == StoreCalls("opportunities", {"query"}, BOOLEAN)

BuyListingsOf(opp) ==
    {i \in 1..Len(listings) :
        listings[i].platform = opp.buy_platform /\ listings[i].item_id = opp.buy_item_id}

\* buy_total is the price plus the shipping cost of the buy listing, and profit,
\* margin and the filters are those of that total.
TotalCostConsistent(opp) ==
    /\ opp.buy_total = opp.buy_price + opp.buy_shipping
    /\ BuyListingsOf(opp) # {}
    /\ \A i \in BuyListingsOf(opp) :
          opp.buy_total = listings[i].price + listings[i].shipping_cost
    /\ opp.profit_amount = opp.net_sell_amount - (opp.buy_price + opp.buy_shipping)
    /\ opp.profit_margin = [n |-> opp.profit_amount, d |-> opp.buy_price + opp.buy_shipping]
    /\ (opp.buy_price + opp.buy_shipping) * 10 <= opp.sell_price * ArbitrageDetector(env).max_price_ratio
    /\ opp.profit_margin.n * 100 >= env.MIN_PROFIT_MARGIN * (opp.buy_price + opp.buy_shipping)

Pairing(opp) == <<opp.buy_platform, opp.buy_item_id, opp.sell_platform, opp.sell_item_id>>

\* C26.  Deduplication never discards an opportunity unless a surviving opportunity
\* has the same buy platform, buy item id, sell platform and sell item id: every
\* opportunity found has its pairing among the ranked ones.
DedupKeepsDistinctPairings ==
    pc \in {"store_opportunities", "get_market_insights", "respond", "done"} =>
        \A i \in 1..Len(opportunities) :
            \E k \in 1..Len(valid_opportunities) :
                Pairing(valid_opportunities[k]) = Pairing(opportunities[i])

\* The elements of a sequence.
Range(s) == {s[i] : i \in 1..Len(s)}

\* The sequences that hold the elements of ls in another order.
Reorderings(ls) ==
    {[i \in 1..Len(ls) |-> ls[p[i]]] :
        p \in {q \in [1..Len(ls) -> 1..Len(ls)] : \A i, j \in 1..Len(ls) : i # j => q[i] # q[j]}}

\* The orders in which a query of card-name-index can return the listings ls: by
\* ascending price, listings of equal price in any order.
QueryOrders(ls) ==
    {t \in Reorderings(ls) : \A i, j \in 1..Len(t) : i < j => t[i].price <= t[j].price}

\* What detect_opportunities finds in the listings ls, before and after
\* _filter_and_rank_opportunities, and what it hands to _store_opportunities.
FoundIn(ls) ==
    find_cross_platform_opportunities(ArbitrageDetector(env), group_listings_by_platform(ls), Strip(event_card_name(event)))

RankedIn(ls) == filter_and_rank_opportunities(FoundIn(ls))

SelectedIn(ls) == selected_opportunities(ArbitrageDetector(env), RankedIn(ls))

DedupTie(opps) ==
    \E i, j \in 1..Len(opps) :
        /\ i # j
        /\ dedup_key(opps[i]) = dedup_key(opps[j])
        /\ opps[i].confidence_level = opps[j].confidence_level

\* Two ranked opportunities have the same composite score.
ScoreTie(ranked) ==
    \E i, j \in 1..Len(ranked) :
        /\ i # j
        /\ ~RatLess(ranked[i].composite_score, ranked[j].composite_score)
        /\ ~RatLess(ranked[j].composite_score, ranked[i].composite_score)

-----------------------------------------------------------------------------
(* The Opportunity Store as a keyed table: detection runs, the expiry sweep of the
   scheduler and the TTL deletion of the store.  Time is counted in ticks of
   the clock; the listings' ages are not followed against it (the pool is fixed)
   and the call log store_calls is not kept. *)

\* timedelta(hours=24) and get_ttl_timestamp(24), in ticks.
ExpiryTicks == 2

\* The last tick of the clock.
MaxClock == 4

\* The most runs of detect_opportunities.
MaxRuns == 2

\* The primary key of the opportunities table: partition key card_name, sort key
\* created_at.
opportunity_key(item) == <<item.card_name, item.created_at>>

\* The keys of the items of a table.
opportunity_keys(table) == {opportunity_key(table[i]) : i \in 1..Len(table)}

\* Table.put_item: the item replaces the item of the same key, if there is one.
put_item(table, item) ==
    IF opportunity_key(item) \in opportunity_keys(table)
    THEN [i \in 1..Len(table) |->
             IF opportunity_key(table[i]) = opportunity_key(item) THEN item ELSE table[i]]
    ELSE Append(table, item)

\* The items put one after the other.
RECURSIVE put_items(_, _)
put_items(table, items) ==
    IF items = <<>> THEN table ELSE put_items(put_item(table, Head(items)), Tail(items))

\* Table.update_item(Key=..., UpdateExpression='SET #status = :status') with
\* :status = 'EXPIRED' and no ConditionExpression: the attribute is set on the item
\* of that key; when the table holds no such item, one is created with the key and
\* the attribute.
update_item(table, key) ==
    IF key \in opportunity_keys(table)
    THEN [i \in 1..Len(table) |->
             IF opportunity_key(table[i]) = key THEN [status |-> "EXPIRED"] @@ table[i]
             ELSE table[i]]
    ELSE Append(table, [card_name |-> key[1], created_at |-> key[2], status |-> "EXPIRED"])

\* The item of the key is removed.
delete_item(table, key) == SelectSeq(table, LAMBDA o : opportunity_key(o) # key)

\* The readings of get_current_timestamp by n successive calls of
\* _calculate_detailed_opportunity: datetime.now has the resolution of the system
\* clock, so a reading is the one before it or a later one.
ClockReadings(n) ==
    {r \in [1..n -> clock..MaxClock] :
        /\ n > 0 => r[1] <= clock + 1
        /\ \A i \in 1..(n - 1) : r[i] <= r[i + 1] /\ r[i + 1] <= r[i] + 1}

\* _calculate_detailed_opportunity: created_at and expires_at of the opportunity.
with_timestamps(opp, current_time) ==
    [created_at |-> current_time, expires_at |-> current_time + ExpiryTicks] @@ opp

\* _store_opportunities: item = opp.copy() with opportunity_id and ttl.
item_to_store(opp, now) ==
    [opportunity_id |-> <<opp.card_name, opp.created_at, opp.buy_platform, opp.sell_platform>>,
     ttl |-> now + ExpiryTicks] @@ opp

\* Two items of the batch have the same key: DynamoDB rejects a BatchWriteItem
\* request that holds duplicates, the batch_writer raises.
rejected_batches(items) ==
    {batch_of(i) : i \in {i \in 1..Len(items) :
        \E j \in 1..Len(items) :
            /\ j # i
            /\ batch_of(j) = batch_of(i)
            /\ opportunity_key(items[j]) = opportunity_key(items[i])}}

\* The ways batch_write_items can fail on the keyed table.
KeyedWriteOutcomes(items, faults) ==
    LET rejected == rejected_batches(items)
        batches == {batch_of(i) : i \in 1..Len(items)}
    IN  {o \in [failed_batches : {rejected \cup extra : extra \in SUBSET (batches \ rejected)},
                failed_puts : SUBSET (1..Len(items))] :
            /\ \A i \in o.failed_puts : batch_of(i) \in o.failed_batches
            /\ Cardinality(o.failed_batches \ rejected) + Cardinality(o.failed_puts) <= faults}

\* The writes batch_write_items makes, in order: a batch the batch_writer accepts is
\* written as one request; the items of a batch it raises on are put one by one.
write_steps(items, outcome) ==
    LET n == Len(items)
        batches == (n + BatchSize - 1) \div BatchSize
        members(b) == SubSeq(items, (b - 1) * BatchSize + 1, Min(n, b * BatchSize))
    IN  Flatten([b \in 1..batches |->
                    IF b \in outcome.failed_batches
                    THEN [k \in 1..Len(members(b)) |->
                             [items |-> <<members(b)[k]>>,
                              ok |-> ((b - 1) * BatchSize + k) \notin outcome.failed_puts]]
                    ELSE <<[items |-> members(b), ok |-> TRUE]>>])

\* detect_opportunities against the keyed table, up to the call of batch_write_items:
\* the opportunities are stamped as they are found, then ranked and truncated, and
\* the items to store are built.
detect_opportunities ==
    /\ pc = "scheduled"
    /\ detection.pc = "idle"
    /\ detection.runs < MaxRuns
    /\ \E active \in {SelectSeq(listings_table, is_active_listing)} :
       \E groups \in {group_listings_by_platform(active)} :
       \E found \in {find_cross_platform_opportunities(ArbitrageDetector(env), groups, Strip(event_card_name(event)))} :
       \E readings \in ClockReadings(Len(found)) :
       \E stamped \in {[i \in 1..Len(found) |-> with_timestamps(found[i], readings[i])]} :
       \E ranked \in {filter_and_rank_opportunities(stamped)} :
       \E selected \in {selected_opportunities(ArbitrageDetector(env), ranked)} :
       \E now \in {IF found = <<>> THEN clock ELSE readings[Len(found)]} :
       \E items \in {[i \in 1..Len(selected) |-> item_to_store(selected[i], now)]} :
       \E rejected \in {rejected_batches(items)} :
       \E outcome \in KeyedWriteOutcomes(items, store_faults) :
          /\ listings' = active
          /\ platform_listings' = groups
          /\ pairs_evaluated' = pairs_visited_by_direction(groups)
          /\ opportunities' = stamped
          /\ valid_opportunities' = ranked
          /\ items_to_store' = items
          /\ stored_count' = 0
          /\ detection' = [detection EXCEPT !.pc = "batch_write_items",
                                            !.pending = write_steps(items, outcome)]
          /\ store_faults' =
                 store_faults - Cardinality(outcome.failed_batches \ rejected)
                              - Cardinality(outcome.failed_puts)
          /\ clock' = now
    /\ UNCHANGED <<env, event, listings_table, opportunities_table, pc, result, probe,
                   opportunities_found, market_insights, store_calls, workflow,
                   invocations, sweep>>

\* batch_write_items: the next write, a batch or a single put_item.
write_items ==
    /\ pc = "scheduled"
    /\ detection.pc = "batch_write_items"
    /\ detection.pending # <<>>
    /\ LET step == Head(detection.pending)
       IN  /\ opportunities_table' =
                  IF step.ok THEN put_items(opportunities_table, step.items)
                  ELSE opportunities_table
           /\ stored_count' = IF step.ok THEN stored_count + Len(step.items) ELSE stored_count
    /\ detection' = [detection EXCEPT !.pending = Tail(@)]
    /\ UNCHANGED <<env, event, listings_table, pc, listings, platform_listings,
                   pairs_evaluated, opportunities, valid_opportunities, result, probe,
                   opportunities_found, items_to_store, market_insights, store_calls,
                   workflow, invocations, store_faults, clock, sweep>>

\* batch_write_items returns written_count, _store_opportunities and
\* detect_opportunities return.
detect_return ==
    /\ pc = "scheduled"
    /\ detection.pc = "batch_write_items"
    /\ detection.pending = <<>>
    /\ detection' = [detection EXCEPT !.pc = "idle", !.runs = @ + 1]
    /\ UNCHANGED <<env, event, listings_table, opportunities_table, pc, listings,
                   platform_listings, pairs_evaluated, opportunities,
                   valid_opportunities, stored_count, result, probe,
                   opportunities_found, items_to_store, market_insights, store_calls,
                   workflow, invocations, store_faults, clock, sweep>>

\* The filter of the scan of _cleanup_expired_opportunities.
should_be_expired(opp, current_time) ==
    /\ "status" \in DOMAIN opp /\ opp.status = "ACTIVE"
    /\ "expires_at" \in DOMAIN opp /\ opp.expires_at < current_time

\* _cleanup_expired_opportunities: current_time is read and the table scanned; a
\* failure of the scan ends the sweep with 0.
cleanup_scan ==
    /\ pc = "scheduled"
    /\ sweep.pc = "idle"
    /\ \E ok \in CallOutcomes(store_faults) :
          /\ store_faults' = IF ok THEN store_faults ELSE store_faults - 1
          /\ sweep' =
                 IF ok
                 THEN [pc |-> "update",
                       current_time |-> clock,
                       expired_opportunities |->
                           SelectSeq(opportunities_table,
                                     LAMBDA o : should_be_expired(o, clock)),
                       cleanup_count |-> 0]
                 ELSE [pc |-> "done", returned |-> 0]
    /\ UNCHANGED <<env, event, listings_table, opportunities_table, pc, listings,
                   platform_listings, pairs_evaluated, opportunities,
                   valid_opportunities, stored_count, result, probe,
                   opportunities_found, items_to_store, market_insights, store_calls,
                   workflow, invocations, clock, detection>>

\* _cleanup_expired_opportunities: one turn of the loop over expired_opportunities;
\* a failure of update_item is logged and the loop goes on.
cleanup_update ==
    /\ pc = "scheduled"
    /\ sweep.pc = "update"
    /\ sweep.expired_opportunities # <<>>
    /\ \E ok \in CallOutcomes(store_faults) :
          /\ store_faults' = IF ok THEN store_faults ELSE store_faults - 1
          /\ opportunities_table' =
                 IF ok
                 THEN update_item(opportunities_table,
                                  opportunity_key(Head(sweep.expired_opportunities)))
                 ELSE opportunities_table
          /\ sweep' = [sweep EXCEPT
                           !.expired_opportunities = Tail(@),
                           !.cleanup_count = IF ok THEN @ + 1 ELSE @]
    /\ UNCHANGED <<env, event, listings_table, pc, listings, platform_listings,
                   pairs_evaluated, opportunities, valid_opportunities, stored_count,
                   result, probe, opportunities_found, items_to_store, market_insights,
                   store_calls, workflow, invocations, clock, detection>>

\* _cleanup_expired_opportunities returns cleanup_count.
cleanup_return ==
    /\ pc = "scheduled"
    /\ sweep.pc = "update"
    /\ sweep.expired_opportunities = <<>>
    /\ sweep' = [pc |-> "done", returned |-> sweep.cleanup_count]
    /\ UNCHANGED <<env, event, listings_table, opportunities_table, pc, listings,
                   platform_listings, pairs_evaluated, opportunities,
                   valid_opportunities, stored_count, result, probe,
                   opportunities_found, items_to_store, market_insights, store_calls,
                   workflow, invocations, store_faults, clock, detection>>

\* The next hourly check.
hourly_check ==
    /\ pc = "scheduled"
    /\ sweep.pc = "done"
    /\ sweep' = NoSweep
    /\ UNCHANGED <<env, event, listings_table, opportunities_table, pc, listings,
                   platform_listings, pairs_evaluated, opportunities,
                   valid_opportunities, stored_count, result, probe,
                   opportunities_found, items_to_store, market_insights, store_calls,
                   workflow, invocations, store_faults, clock, detection>>

\* The table's time_to_live_attribute: the store deletes, at a time of its own, an
\* item whose ttl has passed.
ttl_delete ==
    /\ pc = "scheduled"
    /\ \E i \in 1..Len(opportunities_table) :
          /\ "ttl" \in DOMAIN opportunities_table[i]
          /\ opportunities_table[i].ttl < clock
          /\ opportunities_table' =
                 delete_item(opportunities_table, opportunity_key(opportunities_table[i]))
    /\ UNCHANGED <<env, event, listings_table, pc, listings, platform_listings,
                   pairs_evaluated, opportunities, valid_opportunities, stored_count,
                   result, probe, opportunities_found, items_to_store, market_insights,
                   store_calls, workflow, invocations, store_faults, clock, sweep, detection>>

\* Time passes.
tick ==
    /\ pc = "scheduled"
    /\ clock < MaxClock
    /\ clock' = clock + 1
    /\ UNCHANGED <<env, event, listings_table, opportunities_table, pc, listings,
                   platform_listings, pairs_evaluated, opportunities,
                   valid_opportunities, stored_count, result, probe,
                   opportunities_found, items_to_store, market_insights, store_calls,
                   workflow, invocations, store_faults, sweep, detection>>

\* The pools of the runs: one opportunity; two opportunities of equal score.
StorePools ==
    {<<ScenarioA_buy, ScenarioA_sell>>,
     <<ScenarioC_mint_cheap, ScenarioA_buy, ScenarioA_sell>>}

InitStore ==
    /\ env \in {DefaultEnviron, [DefaultEnviron EXCEPT !.MAX_OPPORTUNITIES_PER_CARD = 1]}
    /\ event = [card_name |-> Charizard]
    /\ listings_table \in StorePools
    /\ pc = "scheduled"
    /\ probe = NoProbe
    /\ workflow = NoWorkflow
    /\ invocations = <<>>
    /\ store_faults = 1
    /\ Idle

NextStore ==
    \/ detect_opportunities
    \/ write_items
    \/ detect_return
    \/ cleanup_scan
    \/ cleanup_update
    \/ cleanup_return
    \/ hourly_check
    \/ ttl_delete
    \/ tick

SpecStore == InitStore /\ [][NextStore]_vars

\* The fields detection writes on every record of the Opportunity Store.
DetectionFields ==
    {"card_name", "created_at", "expires_at", "status", "opportunity_id", "ttl",
     "buy_platform", "buy_item_id", "sell_platform", "sell_item_id"}

\* C23.  Opportunity lifecycle: a record of the Opportunity Store stays as it was
\* persisted, but for the sweep, which changes only status, only from ACTIVE to
\* EXPIRED, and only on a record whose expires_at is in the past.
OpportunityLifecycle ==
    [][\A i \in 1..Len(opportunities_table) : \A j \in 1..Len(opportunities_table') :
          opportunity_key(opportunities_table'[j]) = opportunity_key(opportunities_table[i]) =>
              \/ opportunities_table'[j] = opportunities_table[i]
              \/ /\ sweep.pc = "update"
                 /\ sweep' # sweep
                 /\ opportunities_table[i].status = "ACTIVE"
                 /\ opportunities_table[i].expires_at < clock
                 /\ opportunities_table'[j] =
                        [opportunities_table[i] EXCEPT !.status = "EXPIRED"]]_vars

\* The records of the Opportunity Store that the last run wrote.
RetrievableRecords ==
    {i \in 1..Len(opportunities_table) : opportunities_table[i] \in Range(items_to_store)}

\* C28.  Distinct persistence: no two items a detection run stores share the key
\* (card_name, created_at), and when the run has returned, and neither the sweep nor
\* the TTL deletion is due on its items, the table holds as many of them as
\* batch_write_items counted.
DistinctPersistence ==
    /\ \A i, j \in 1..Len(items_to_store) :
           i # j => opportunity_key(items_to_store[i]) # opportunity_key(items_to_store[j])
    /\ ( /\ detection.pc = "idle"
         /\ detection.runs > 0
         /\ \A i \in 1..Len(items_to_store) :
                items_to_store[i].ttl >= clock /\ items_to_store[i].expires_at >= clock )
       => Cardinality(RetrievableRecords) = stored_count

\* C29.  Retry idempotence: the Opportunity Store never holds two ACTIVE records of
\* one (buy item, sell item) pairing, however often detection has run over the pool.
RetryIdempotence ==
    \A i, j \in 1..Len(opportunities_table) :
        ( /\ i # j
          /\ DetectionFields \subseteq DOMAIN opportunities_table[i]
          /\ DetectionFields \subseteq DOMAIN opportunities_table[j]
          /\ opportunities_table[i].status = "ACTIVE"
          /\ opportunities_table[j].status = "ACTIVE" )
        => Pairing(opportunities_table[i]) # Pairing(opportunities_table[j])

\* C30.  The sweep adds no record: a status update of the sweep leaves no key in the
\* Opportunity Store that was not there before it, and every record of the store
\* carries the fields detection wrote.
SweepAddsNoRecord ==
    [][(sweep.pc = "update" /\ sweep' # sweep) =>
          /\ opportunity_keys(opportunities_table') \subseteq opportunity_keys(opportunities_table)
          /\ \A i \in 1..Len(opportunities_table') :
                 DetectionFields \subseteq DOMAIN opportunities_table'[i]]_vars

-----------------------------------------------------------------------------
(* shared_utils functions applied to chosen arguments *)

NotInvoked ==
    /\ env = DefaultEnviron
    /\ event = [card_name |-> Charizard]
    /\ listings_table = <<>>
    /\ pc = "probe"
    /\ workflow = NoWorkflow
    /\ invocations = <<>>
    /\ store_faults = 0
    /\ Idle

\* Largest risk score, in tenths, handed to calculate_confidence_level.
MaxRiskInput == 60

InitConfidence ==
    /\ probe \in {[fn |-> "calculate_confidence_level", risk_score |-> r,
                   returned |-> FALSE, value |-> 0] : r \in 0..MaxRiskInput}
    /\ NotInvoked

apply_confidence_level ==
    /\ probe.fn = "calculate_confidence_level"
    /\ ~probe.returned
    /\ probe' = [probe EXCEPT !.returned = TRUE,
                              !.value = calculate_confidence_level(probe.risk_score)]
    /\ UNCHANGED <<clock, sweep, detection, env, event, listings_table, opportunities_table, pc, listings,
                   platform_listings, pairs_evaluated, opportunities,
                   valid_opportunities, stored_count, result, opportunities_found,
                   items_to_store, market_insights, store_calls, workflow, invocations, store_faults>>

SpecConfidence == InitConfidence /\ [][apply_confidence_level]_vars

-----------------------------------------------------------------------------
(* calculate_risk_score on pairs of listings *)

\* Buy listings at 10.00 of every reputation band, platform risk class, age class
\* and of both ends of the condition hierarchy.
RiskBuyListings ==
    {Listing(platform, "b", 1000, 0, condition, seller_rating, scraped_at, TRUE) :
        platform \in {ebay, comc, mercari}, condition \in {Mint, HeavilyPlayed},
        seller_rating \in {100, 95, 94, 90, 89, 85, 84, 80},
        scraped_at \in {"fresh", "aged", "naive", "garbled"}}

\* Sell listings whose price puts the margin at 0, at 50%, above 50%, at 100% and
\* above 100%.
RiskSellListings ==
    {Listing(platform, "s", price, 0, condition, 100, "aged", TRUE) :
        platform \in {tcgplayer, comc, mercari}, condition \in {Mint, HeavilyPlayed},
        price \in {1000, 1500, 1600, 2000, 3000}}

InitRisk ==
    /\ probe \in {[fn |-> "calculate_risk_score", buy_listing |-> b, sell_listing |-> c,
                   returned |-> FALSE, value |-> 0]
                  : b \in RiskBuyListings, c \in RiskSellListings}
    /\ NotInvoked

apply_risk_score ==
    /\ probe.fn = "calculate_risk_score"
    /\ ~probe.returned
    /\ probe' = [probe EXCEPT
                     !.returned = TRUE,
                     !.value = calculate_risk_score(probe.buy_listing, probe.sell_listing)]
    /\ UNCHANGED <<clock, sweep, detection, env, event, listings_table, opportunities_table, pc, listings,
                   platform_listings, pairs_evaluated, opportunities,
                   valid_opportunities, stored_count, result, opportunities_found,
                   items_to_store, market_insights, store_calls, workflow, invocations,
                   store_faults>>

\* Detection runs, and calculate_risk_score applied to pairs of listings.
SpecBounds == (Init \/ InitRisk) /\ [][Next \/ apply_risk_score]_vars

\* C11.  calculate_risk_score returns a value in [1.0, 5.0] for every pair of
\* listings, and every opportunity detection produces, returns or stores has a risk
\* score in [1.0, 5.0] and a confidence level in [10, 100].
RiskAndConfidenceBounds ==
    /\ probe.fn = "calculate_risk_score" /\ probe.returned =>
          probe.value >= 10 /\ probe.value <= 50
    /\ \A opps \in {opportunities, valid_opportunities, items_to_store,
                    opportunities_table} :
          \A i \in 1..Len(opps) :
              /\ opps[i].risk_score >= 10 /\ opps[i].risk_score <= 50
              /\ opps[i].confidence_level >= 10 /\ opps[i].confidence_level <= 100
    /\ Responded =>
          \A i \in 1..Len(result.top_opportunities) :
              /\ result.top_opportunities[i].risk_score \in 10..50
              /\ result.top_opportunities[i].confidence_level \in 10..100

\* Every penalty applies at once: rating below 85, a high-risk platform, a margin
\* above 100%, a listing under an hour old and incompatible conditions.
RiskAndConfidenceBoundsWitness ==
    /\ probe.fn = "calculate_risk_score"
    /\ probe.returned
    /\ probe.buy_listing.seller_rating < 85
    /\ probe.buy_listing.platform = mercari
    /\ probe.buy_listing.scraped_at = "fresh"
    /\ probe.sell_listing.price > 2 * probe.buy_listing.total_cost
    /\ ~assess_condition_compatibility(probe.buy_listing.condition,
                                       probe.sell_listing.condition)
    /\ probe.value = 49

\* calculate_risk_score applied to pairs of listings.
SpecRisk == InitRisk /\ [][apply_risk_score]_vars

\* The penalties of the claim, in tenths, for the probe's pair of listings.
ReputationPenalty ==
    LET rating == probe.buy_listing.seller_rating
    IN  CASE rating >= 95 -> 0
          [] rating >= 90 /\ rating < 95 -> 3
          [] rating >= 85 /\ rating < 90 -> 3 + 5
          [] rating < 85 -> 3 + 5 + 7

PlatformPenalty ==
    LET platforms == {probe.buy_listing.platform, probe.sell_listing.platform}
    IN  IF mercari \in platforms THEN 4 ELSE IF comc \in platforms THEN 2 ELSE 0

\* (sell_price - buy_total) / buy_total against 1.0 and 0.5, the buy total being 10.00.
MarginPenalty ==
    LET gain == probe.sell_listing.price - probe.buy_listing.total_cost
    IN  IF gain * 10 > probe.buy_listing.total_cost * 10 THEN 8
        ELSE IF gain * 10 > probe.buy_listing.total_cost * 5 THEN 4
        ELSE 0

ConditionPenalty ==
    IF probe.buy_listing.condition = HeavilyPlayed /\ probe.sell_listing.condition = Mint
    THEN 10 ELSE 0

\* Freshness as the claim has it: a timestamp no parser accepts adds 0.1, a listing
\* under one hour old adds 0.2; a timestamp without offset parses, so it adds by age.
FreshnessPenaltyAsStated ==
    CASE probe.buy_listing.scraped_at = "fresh" -> {2}
      [] probe.buy_listing.scraped_at = "garbled" -> {1}
      [] probe.buy_listing.scraped_at = "naive" -> {0, 2}
      [] OTHER -> {0}

\* Freshness as the code has it: a timestamp without offset adds 0.1 whatever the age.
FreshnessPenalty ==
    CASE probe.buy_listing.scraped_at = "fresh" -> 2
      [] probe.buy_listing.scraped_at \in {"garbled", "naive"} -> 1
      [] OTHER -> 0

\* C25 as stated.  calculate_risk_score = min(5.0, 1.0 + the summed penalties), with
\* freshness +0.2 for a buy listing under one hour old or +0.1 for an unparseable
\* timestamp.
RiskFormulaAsStated ==
    probe.fn = "calculate_risk_score" /\ probe.returned =>
        \E freshness \in FreshnessPenaltyAsStated :
            probe.value = Min(50, 10 + ReputationPenalty + PlatformPenalty + MarginPenalty
                                     + freshness + ConditionPenalty)

\* C25 amended.  calculate_risk_score = min(5.0, 1.0 + reputation + platform + margin
\* + freshness + condition), the penalties summed: reputation cumulative (+0.3 below
\* 95, +0.5 more below 90, +0.7 more below 85); platform +0.4 if either platform is
\* high-risk, otherwise +0.2 if either is medium-risk; margin +0.8 above 1.0,
\* otherwise +0.4 above 0.5; freshness +0.2 for a buy listing whose offset-aware
\* timestamp is under one hour old, +0.1 when the age cannot be computed (timestamp
\* missing, unparseable, or without offset, whatever its age); condition +1.0 when
\* the conditions are incompatible.
RiskFormula ==
    probe.fn = "calculate_risk_score" /\ probe.returned =>
        probe.value = Min(50, 10 + ReputationPenalty + PlatformPenalty + MarginPenalty
                                 + FreshnessPenalty + ConditionPenalty)

\* A buy listing rated 80 on a medium-risk platform, with a timestamp without offset,
\* sold on a high-risk platform at a margin of exactly 100%: 1.0 + 1.5 + 0.4 + 0.4 +
\* 0.1 = 3.4.
RiskFormulaWitness ==
    /\ probe.fn = "calculate_risk_score"
    /\ probe.returned
    /\ probe.buy_listing.seller_rating = 80
    /\ probe.buy_listing.platform = comc
    /\ probe.sell_listing.platform = mercari
    /\ probe.buy_listing.scraped_at = "naive"
    /\ probe.sell_listing.price = 2 * probe.buy_listing.total_cost
    /\ probe.buy_listing.condition = probe.sell_listing.condition
    /\ probe.value = 34

\* Condition labels as listings carry them.
ProbeLabels ==
    {<<"D", "a", "m", "a", "g", "e", "d">>, <<"H", "e", "a", "v", "i", "l", "y", " ", "P", "l", "a", "y", "e", "d">>, <<" ", "p", "l", "a", "y", "e", "d", " ">>, <<"L", "P">>, <<"F", "o", "o">>, <<>>, <<" ", " ">>, <<"G", "o", "o", "d">>,
     <<"V", "E", "R", "Y", " ", "G", "O", "O", "D">>, <<"E", "x", "c", "e", "l", "l", "e", "n", "t">>, <<" ", "N", "M", " ">>, <<"N", "e", "a", "r", " ", "M", "i", "n", "t">>, <<"M", "i", "n", "t">>, <<"P", "S", "A", " ", "1", "0">>, <<"h", "p", "\t">>}

InitCompatibility ==
    /\ probe \in {[fn |-> "assess_condition_compatibility", buy_condition |-> b,
                   sell_condition |-> c, returned |-> FALSE, value |-> FALSE]
                  : b \in ProbeLabels, c \in ProbeLabels}
    /\ NotInvoked

apply_condition_compatibility ==
    /\ probe.fn = "assess_condition_compatibility"
    /\ ~probe.returned
    /\ probe' = [probe EXCEPT
                     !.returned = TRUE,
                     !.value = assess_condition_compatibility(probe.buy_condition,
                                                              probe.sell_condition)]
    /\ UNCHANGED <<clock, sweep, detection, env, event, listings_table, opportunities_table, pc, listings,
                   platform_listings, pairs_evaluated, opportunities,
                   valid_opportunities, stored_count, result, opportunities_found,
                   items_to_store, market_insights, store_calls, workflow, invocations, store_faults>>

SpecCompatibility == InitCompatibility /\ [][apply_condition_compatibility]_vars

\* C8.  The rank each probe label has in the condition hierarchy once lower-cased
\* and trimmed; a label the hierarchy does not hold, or a blank one, has rank 4.
ExpectedRank ==
    (<<"D", "a", "m", "a", "g", "e", "d">> :> 1) @@ (<<"H", "e", "a", "v", "i", "l", "y", " ", "P", "l", "a", "y", "e", "d">> :> 2) @@ (<<"h", "p", "\t">> :> 2) @@ (<<" ", "p", "l", "a", "y", "e", "d", " ">> :> 3) @@
    (<<"L", "P">> :> 4) @@ (<<"F", "o", "o">> :> 4) @@ (<<>> :> 4) @@ (<<" ", " ">> :> 4) @@ (<<"G", "o", "o", "d">> :> 5) @@
    (<<"V", "E", "R", "Y", " ", "G", "O", "O", "D">> :> 6) @@ (<<"E", "x", "c", "e", "l", "l", "e", "n", "t">> :> 7) @@ (<<" ", "N", "M", " ">> :> 8) @@ (<<"N", "e", "a", "r", " ", "M", "i", "n", "t">> :> 8) @@
    (<<"M", "i", "n", "t">> :> 9) @@ (<<"P", "S", "A", " ", "1", "0">> :> 10)

\* C8.  assess_condition_compatibility(buy, sell) holds exactly when
\* buy rank >= sell rank - 1, the ranks looked up case-insensitively and trimmed,
\* unknown and blank labels at rank 4; every label is compatible with itself, and a
\* buy rank two or more below the sell rank never is.
CompatibilityByRank ==
    probe.fn = "assess_condition_compatibility" /\ probe.returned =>
        LET buy_rank == ExpectedRank[probe.buy_condition]
            sell_rank == ExpectedRank[probe.sell_condition]
        IN  /\ probe.value <=> (buy_rank >= sell_rank - 1)
            /\ probe.buy_condition = probe.sell_condition => probe.value
            /\ buy_rank <= sell_rank - 2 => ~probe.value

\* A padded upper-case label on the buy side, one grade below the sell side.
CompatibilityByRankWitness ==
    /\ probe.fn = "assess_condition_compatibility"
    /\ probe.returned
    /\ probe.buy_condition = <<" ", "N", "M", " ">>
    /\ probe.sell_condition = <<"M", "i", "n", "t">>
    /\ probe.value

ClampedConfidence(risk_score) ==
    LET raw == 100 - (risk_score - 10) * 2
    IN  IF raw > 100 THEN 100 ELSE IF raw < 10 THEN 10 ELSE raw

-----------------------------------------------------------------------------
(* Scenario D: more listings on a platform than _analyze_platform_pair analyses *)

\* Listings on each platform in Scenario D.
ScenarioListings == 60

\* The k-th cheapest ebay listing: 10.00 + k cents, free shipping.
ScenarioD_buy(k) ==
    Listing(ebay, "a" \o ToString(k), 1000 + k, 0, NearMint, 100, "aged", TRUE)

\* The tcgplayer listing with the k-th lowest total cost.  The three first sell at
\* 30.00 + k cents with free shipping; the next, up to the 50th, sell at 11.00 + k
\* cents with 20.00 shipping, too low a price for any ebay listing to be sold at a
\* profit; those beyond the 50th sell at 50.00 + k cents with free shipping.
ScenarioD_sell(k) ==
    IF k <= 3
    THEN Listing(tcgplayer, "b" \o ToString(k), 3000 + k, 0, NearMint, 100, "aged", TRUE)
    ELSE IF k <= MaxPairItems
    THEN Listing(tcgplayer, "b" \o ToString(k), 1100 + k, 2000, NearMint, 100, "aged", TRUE)
    ELSE Listing(tcgplayer, "b" \o ToString(k), 5000 + k, 0, NearMint, 100, "aged", TRUE)

\* The store's items for nb ebay and ns tcgplayer listings, by ascending price.
ScenarioD_pool(nb, ns) ==
    [k \in 1..nb |-> ScenarioD_buy(k)]
    \o [k \in 1..(Min(ns, MaxPairItems) - Min(ns, 3)) |-> ScenarioD_sell(k + 3)]
    \o [k \in 1..Min(ns, 3) |-> ScenarioD_sell(k)]
    \o [k \in 1..(ns - Min(ns, MaxPairItems)) |-> ScenarioD_sell(k + MaxPairItems)]

ScenarioD_sizes ==
    {1, MaxPairItems - 1, MaxPairItems, MaxPairItems + 1, ScenarioListings}

InitScenarioD ==
    /\ env = DefaultEnviron
    /\ event = [card_name |-> Charizard]
    /\ listings_table \in {ScenarioD_pool(nb, ns) : nb \in ScenarioD_sizes, ns \in ScenarioD_sizes}
    /\ pc = "start"
    /\ probe = NoProbe
    /\ workflow = NoWorkflow
    /\ invocations = <<>>
    /\ store_faults = 0
    /\ Idle

SpecScenarioD == InitScenarioD /\ [][Next]_vars

\* The listings of the query result on l's platform with a lower total cost than l.
CheaperOnPlatform(l) ==
    {i \in 1..Len(listings) :
        listings[i].platform = l.platform /\ listings[i].total_cost < l.total_cost}

\* The listing of the query result with the given platform and item id.
ListingOf(platform, item_id) ==
    CHOOSE l \in {listings[i] : i \in 1..Len(listings)} :
        l.platform = platform /\ l.item_id = item_id

\* C9.  Scenario D: each direction visits at most 50 x 50 = 2,500 (buy, sell)
\* pairs, and both listings of every opportunity found are among the 50 of lowest
\* total cost on their platform; with 60 listings on each platform those ranked 51
\* to 60 appear in no opportunity.
TruncationBound ==
    /\ \A d \in 1..Len(pairs_evaluated) : pairs_evaluated[d].pairs <= 2500
    /\ \A opps \in {opportunities, valid_opportunities, opportunities_table} :
          \A i \in 1..Len(opps) :
              /\ Cardinality(CheaperOnPlatform(
                     ListingOf(opps[i].buy_platform, opps[i].buy_item_id))) < 50
              /\ Cardinality(CheaperOnPlatform(
                     ListingOf(opps[i].sell_platform, opps[i].sell_item_id))) < 50

\* 60 listings on each platform: 2,500 pairs are visited in each direction,
\* opportunities are found, and the ebay listing ranked 51 and the tcgplayer listing
\* ranked 60, which make an opportunity when analysed as a pair, are in none.
TruncationBoundWitness ==
    /\ Responded
    /\ listings_table = ScenarioD_pool(60, 60)
    /\ Len(pairs_evaluated) = 2
    /\ \A d \in 1..2 : pairs_evaluated[d].pairs = 2500
    /\ opportunities # <<>>
    /\ analyze_pair(ArbitrageDetector(env), ScenarioD_buy(51), ScenarioD_sell(60),
                    tcgplayer, Charizard) # <<>>
    /\ \A i \in 1..Len(opportunities) :
          /\ opportunities[i].buy_item_id # ScenarioD_buy(51).item_id
          /\ opportunities[i].sell_item_id # ScenarioD_sell(60).item_id

=============================================================================
